---- MODULE Spec2Model ----
(***************************************************************************)
(* A model of the quality-driven refinement pipeline of pixelfinity-ai:    *)
(* EnhancementEngine (src/src/lib/enhancementEngine.ts).                    *)
(*                                                                         *)
(* Numbers.  TLC has integers only, so the three quality metrics are kept  *)
(* in fixed point, rounded down:                                           *)
(*    psnr         in tenths of a dB      (25 dB   is 250)                  *)
(*    ssim         in thousandths         (0.8     is 800)                  *)
(*    improvement  in tenths of a point   (15      is 150, 22.5 is 225)     *)
(*                                                                         *)
(* Images.  A decoded image is a record [width, height, shade]: a buffer   *)
(* of width x height RGBA pixels whose R, G and B bytes all equal shade    *)
(* and whose alpha is 255.  getImageData expands it to the byte array the  *)
(* metric code reads.  A URL is a record [kind, img]: kind "blob" for the  *)
(* object URL of the uploaded file, "data" for a canvas.toDataURL string.  *)
(***************************************************************************)
EXTENDS Integers, Sequences, FiniteSets, TLC

\* ------------------------------------------------------------------ bounds

\* Shades of gray the model's images are filled with: Shade(0..MaxShade).
MaxShade == 3

\* Side of the larger of the two image sizes of the refinement model.
MaxDim == 4

\* Largest image side of the segmentation model.
MaxSide == 9

\* The widest and highest pixel buffer the filters are run on.
MaxBufSide == 3

\* The pixels of the largest buffer the pixel code is run on.
MaxPixels == 9

\* The last index of the pixel colours of those buffers.
MaxColour == 7

\* The last index of the byte values of the single pixels of the colour filters.
MaxByte == 7

\* The most initialize() calls that go on to load the models.
MaxLoads == 3

\* ------------------------------------------------------- program constants

MAX_ITERATIONS == 3

\* QUALITY_THRESHOLDS in the fixed-point units above.
QUALITY_THRESHOLDS == [minPSNR |-> 250, minSSIM |-> 800, minImprovement |-> 150]

\* const gridSize = 4 of segmentImage.
gridSize == 4

Options == {"auto", "hdr", "night", "portrait", "color", "detail", "style"}

RevertedLabel == "Original (no significant improvement possible)"

\* ------------------------------------------------------------------ images

\* Gray levels: two ten apart (a faithful candidate), the others further apart.
ShadeTable == <<80, 165, 150, 140, 90, 220>>

Shade(k) == ShadeTable[k + 1]

Shades == {Shade(k) : k \in 0..MaxShade}

Dims == {1, MaxDim}

Images == {[width |-> d, height |-> d, shade |-> s] : d \in Dims, s \in Shades}

NoImage == [width |-> 0, height |-> 0, shade |-> 0]

\* The files a caller can pass: decodable images and one undecodable file.
Files == [valid : {TRUE}, img : Images] \cup {[valid |-> FALSE, img |-> NoImage]}

\* URL.createObjectURL(image)
createObjectURL(file) == [kind |-> "blob", img |-> file.img]

\* canvas.toDataURL('image/jpeg', 0.95): a new string holding the canvas
\* content.  On the uniform buffers of this model JPEG at quality 0.95 keeps
\* every byte, so only the kind of the URL changes.
toDataURL(img) == [kind |-> "data", img |-> img]

\* ctx.drawImage(img, 0, 0, width, height); ctx.getImageData(0, 0, width, height).data
getImageData(img, width, height) ==
    [i \in 1..(width * height * 4) |-> IF i % 4 = 0 THEN 255 ELSE img.shade]

Min(a, b) == IF a < b THEN a ELSE b

Max(a, b) == IF a > b THEN a ELSE b

RECURSIVE SeqSum(_)
SeqSum(s) == IF s = <<>> THEN 0 ELSE Head(s) + SeqSum(Tail(s))

\* ----------------------------------------------------------------- metrics

\* 1000 * 10^(j/100) rounded up, j = 0..99: the mantissas of Math.log10.
Pow10Table ==
    << 1000, 1024, 1048, 1072, 1097, 1123, 1149, 1175, 1203, 1231,
       1259, 1289, 1319, 1349, 1381, 1413, 1446, 1480, 1514, 1549,
       1585, 1622, 1660, 1699, 1738, 1779, 1820, 1863, 1906, 1950,
       1996, 2042, 2090, 2138, 2188, 2239, 2291, 2345, 2399, 2455,
       2512, 2571, 2631, 2692, 2755, 2819, 2885, 2952, 3020, 3091,
       3163, 3236, 3312, 3389, 3468, 3549, 3631, 3716, 3802, 3891,
       3982, 4074, 4169, 4266, 4366, 4467, 4571, 4678, 4787, 4898,
       5012, 5129, 5249, 5371, 5496, 5624, 5755, 5889, 6026, 6166,
       6310, 6457, 6607, 6761, 6919, 7080, 7245, 7414, 7586, 7763,
       7944, 8129, 8318, 8512, 8710, 8913, 9121, 9333, 9550, 9773 >>

RECURSIVE Decade(_, _)
\* The largest d with den * 10^d <= num (num >= den >= 1).
Decade(num, den) == IF den * 10 <= num THEN 1 + Decade(num, den * 10) ELSE 0

RECURSIVE Pow10(_)
Pow10(d) == IF d = 0 THEN 1 ELSE 10 * Pow10(d - 1)

\* 100 * Math.log10(num / den) rounded down, for num >= den >= 1: the decade,
\* then three digits of the mantissa by long division, then the table.
Log10x100(num, den) ==
    LET d     == Decade(num, den)
        D     == den * Pow10(d)
        a     == num \div D
        rem   == num % D
        t     == (rem * 100) \div D
        rem2  == (rem * 100) % D
        r1000 == 1000 * a + 10 * t + (rem2 * 10) \div D
        j     == CHOOSE k \in 0..99 :
                    /\ Pow10Table[k + 1] <= r1000
                    /\ (k < 99 => Pow10Table[k + 2] > r1000)
    IN  100 * d + j

\* calculatePSNR with the alpha byte in the inner loop (c < 4).
calculatePSNRWithAlpha(img1Data, img2Data) ==
    LET len  == Len(img1Data)
        diff == [k \in 1..len |->
                    (img1Data[k] - img2Data[k]) * (img1Data[k] - img2Data[k])]
        sum  == SeqSum(diff)
    IN  IF sum = 0 THEN 1000 ELSE Log10x100(65025 * ((len \div 4) * 3), sum)

\* calculatePSNR, in tenths of a dB.  mse = sum / (len / 4 * 3) and
\* 10 * log10(255 * 255 / mse) = 10 * log10(65025 * (len / 4 * 3) / sum).
calculatePSNR(img1Data, img2Data) ==
    LET len  == Len(img1Data)
        diff == [k \in 1..((len \div 4) * 3) |->
                    LET i == 4 * ((k - 1) \div 3) + 1
                        c == (k - 1) % 3
                    IN  (img1Data[i + c] - img2Data[i + c]) * (img1Data[i + c] - img2Data[i + c])]
        sum  == SeqSum(diff)
    IN  IF sum = 0 THEN 1000 ELSE Log10x100(65025 * ((len \div 4) * 3), sum)

\* a / b in thousandths, rounded down, for 0 < b and |a| <= b.
Ratio1000(a, b) ==
    IF b > 2000000 THEN ((a \div 1024) * 1000) \div (b \div 1024)
                   ELSE (a * 1000) \div b

\* calculateSSIM, in thousandths.  With T = r + g + b (three times the luma of
\* the code), S = sum of T and n = width * height:
\*    mean = S / 3n, variance = (n * sum(T^2) - S^2) / 9n^2,
\*    covariance = (n * sum(T1 * T2) - S1 * S2) / 9n^2,
\* and both factors of the SSIM quotient are scaled by 9n^2, C1 = 2601/400 and
\* C2 = 23409/400 included.
calculateSSIM(img1Data, img2Data, width, height) ==
    LET n    == width * height
        T1   == [j \in 1..n |-> img1Data[4*j - 3] + img1Data[4*j - 2] + img1Data[4*j - 1]]
        T2   == [j \in 1..n |-> img2Data[4*j - 3] + img2Data[4*j - 2] + img2Data[4*j - 1]]
        S1   == SeqSum(T1)
        S2   == SeqSum(T2)
        Q1   == SeqSum([j \in 1..n |-> T1[j] * T1[j]])
        Q2   == SeqSum([j \in 1..n |-> T2[j] * T2[j]])
        Q12  == SeqSum([j \in 1..n |-> T1[j] * T2[j]])
        K1   == (23409 * n * n) \div 400
        K2   == (210681 * n * n) \div 400
        lumNum == 2 * S1 * S2 + K1
        lumDen == S1 * S1 + S2 * S2 + K1
        strNum == 2 * (n * Q12 - S1 * S2) + K2
        strDen == (n * Q1 - S1 * S1) + (n * Q2 - S2 * S2) + K2
    IN  (Ratio1000(lumNum, lumDen) * Ratio1000(strNum, strDen)) \div 1000

\* calculateImageMetrics: both images drawn at the smaller width and height.
calculateImageMetrics(img1, img2) ==
    LET width  == Min(img1.width, img2.width)
        height == Min(img1.height, img2.height)
        d1     == getImageData(img1, width, height)
        d2     == getImageData(img2, width, height)
    IN  [psnr |-> calculatePSNR(d1, d2), ssim |-> calculateSSIM(d1, d2, width, height)]

\* Faulty variant of improvementOf: the ssim term left out.
improvementOfPsnrOnly(psnr, ssim) == Min(1000, Max(0, (psnr - 200) * 2))

\* improvement = min(100, max(0, (psnr - 20) * 2 + (ssim - 0.5) * 100)), in tenths.
improvementOf(psnr, ssim) == Min(1000, Max(0, (psnr - 200) * 2 + (ssim - 500)))

\* computeQualityMetrics(originalImageData, enhancedImageData)
computeQualityMetrics(originalImageData, enhancedImageData) ==
    LET m == calculateImageMetrics(originalImageData.img, enhancedImageData.img)
    IN  [psnr |-> m.psnr, ssim |-> m.ssim, improvement |-> improvementOf(m.psnr, m.ssim)]

\* ------------------------------------------------------------------ engine

null == "null"

pipelineModel == "pipeline"

undefined == [psnr |-> -1, ssim |-> -1, improvement |-> -1]

NoUrl == [kind |-> "none", img |-> NoImage]

NoResult == [before |-> NoUrl, after |-> NoUrl, metrics |-> undefined, appliedEnhancements |-> <<>>]

\* How the two awaited pipeline(...) loads of initialize() end.
LoadOutcomes == {"ok", "superResolutionFails", "denoiseFails"}

\* initialize(): the model state it leaves, the loads ending as `outcome`.
initialize(ms, outcome) ==
    IF ms.initialized \/ ms.initializing THEN ms
    ELSE CASE outcome = "ok" ->
                [superResolution |-> pipelineModel, denoise |-> pipelineModel,
                 initialized |-> TRUE, initializing |-> FALSE]
           [] outcome = "superResolutionFails" ->
                [ms EXCEPT !.initializing = FALSE]
           [] outcome = "denoiseFails" ->
                [ms EXCEPT !.superResolution = pipelineModel, !.initializing = FALSE]

\* The synchronous head of initialize(): `return true`, `return false`, or
\* initializing = true and on to the first awaited load.
initializeEntry(ms) ==
    IF ms.initialized THEN "true"
    ELSE IF ms.initializing THEN "false"
    ELSE "load"

\* Faulty variant of afterFailedLoad: the catch leaves initializing set.
afterFailedLoadStuck(ms) == ms

\* catch (error) { this.modelState.initializing = false; return false; }
afterFailedLoad(ms) == [ms EXCEPT !.initializing = FALSE]

\* The stages of applyEnhancement, by the method each one awaits.
Stage(fn, name) == [fn |-> fn, name |-> name]

GlobalPipeline ==
    << Stage("applySuperResolution", "Super Resolution (Real-ESRGAN)"),
       Stage("applyNoiseReduction", "Noise Reduction (SwinIR)"),
       Stage("applyColorEnhancement", "Color Enhancement"),
       Stage("applySharpening", "Detail Sharpening") >>

SelectivePipeline ==
    << Stage("applySelectiveEnhancement", "Selective Regional Enhancement") >>

\* The switch of applyEnhancement, for the options that need no segmentation.
Pipeline(option) ==
    CASE option = "hdr"      -> << Stage("applyHDREffect", "HDR Enhancement") >>
      [] option = "night"    -> << Stage("applyNightModeEnhancement", "Night Mode Enhancement") >>
      [] option = "portrait" -> << Stage("applyPortraitEnhancement", "Portrait Enhancement") >>
      [] option = "color"    -> << Stage("applyColorPop", "Color Pop Enhancement") >>
      [] option = "detail"   -> << Stage("applySuperResolution", "Super Resolution (Real-ESRGAN)"),
                                   Stage("applySharpening", "Advanced Detail Sharpening") >>
      [] option = "style"    -> << Stage("applyStyleTransfer", "Cinematic Style Transfer") >>

\* applySuperResolution: its own try/catch gives the input back when the model
\* is missing or the model call throws.
applySuperResolution(imageData, ms, throws, out) ==
    IF ms.superResolution = null \/ throws THEN imageData ELSE out

\* applyNoiseReduction: the same shape, around the denoise model.
applyNoiseReduction(imageData, ms, throws, out) ==
    IF ms.denoise = null \/ throws THEN imageData ELSE out

\* Faulty variant of CatchesLocally: applyNoiseReduction without its try/catch.
CatchesLocallyOnlySuperResolution(fn) == fn = "applySuperResolution"

\* The stages with a try/catch of their own.
CatchesLocally(fn) == fn \in {"applySuperResolution", "applyNoiseReduction"}

\* Faulty variant of LoopContinues: the loop test off by one.
LoopContinuesInclusive(iteration) == iteration <= MAX_ITERATIONS

\* for (let iteration = 0; iteration < MAX_ITERATIONS; iteration++)
LoopContinues(iteration) == iteration < MAX_ITERATIONS

\* Faulty variant of IsNewBest: the comparison turned round.
IsNewBestInverted(metrics, best) == best = undefined \/ metrics.improvement < best.improvement

\* if (!bestMetrics || metrics.improvement > bestMetrics.improvement)
IsNewBest(metrics, best) == best = undefined \/ metrics.improvement > best.improvement

\* Faulty variant of IsExcellent: the factor 1.5 forgotten.
IsExcellentNoFactor(metrics) == metrics.improvement > QUALITY_THRESHOLDS.minImprovement

\* if (metrics.improvement > QUALITY_THRESHOLDS.minImprovement * 1.5)
IsExcellent(metrics) == metrics.improvement * 10 > QUALITY_THRESHOLDS.minImprovement * 15

\* The three thresholds tested on bestMetrics at the end of a round.
MeetsThresholds(best) ==
    /\ best.psnr > QUALITY_THRESHOLDS.minPSNR
    /\ best.ssim > QUALITY_THRESHOLDS.minSSIM
    /\ best.improvement > QUALITY_THRESHOLDS.minImprovement

\* Faulty variant of StopRule: `continue` for `break` in the early stop.
StopRuleContinue(metrics, best) ==
    IF IsNewBest(metrics, best)
    THEN IF IsExcellent(metrics) THEN "none"
         ELSE IF MeetsThresholds(metrics) THEN "threshold"
         ELSE "none"
    ELSE "diminishing"

\* The break of the loop body taken after a round scored `metrics` with `best`
\* the best metrics before it: "none" when the body runs to its end.
StopRule(metrics, best) ==
    IF IsNewBest(metrics, best)
    THEN IF IsExcellent(metrics) THEN "success"
         ELSE IF MeetsThresholds(metrics) THEN "threshold"
         ELSE "none"
    ELSE "diminishing"

\* Faulty variant of ShouldRevert: the early-stop level used for the revert test.
ShouldRevertAtEarlyStopLevel(best) ==
    best # undefined /\ best.improvement * 10 < QUALITY_THRESHOLDS.minImprovement * 15

\* if (bestMetrics && bestMetrics.improvement < QUALITY_THRESHOLDS.minImprovement)
ShouldRevert(best) ==
    best # undefined /\ best.improvement < QUALITY_THRESHOLDS.minImprovement

\* ------------------------------------------------------------ segmentation

\* The rectangle segmentImage computes for grid cell (x, y).
RegionRect(x, y, width, height) ==
    LET cellWidth  == width \div gridSize
        cellHeight == height \div gridSize
        regionX    == x * cellWidth
        regionY    == y * cellHeight
    IN  [x |-> regionX, y |-> regionY,
         width  |-> IF x = gridSize - 1 THEN width - regionX ELSE cellWidth,
         height |-> IF y = gridSize - 1 THEN height - regionY ELSE cellHeight]

\* The rectangles in the order of the two loops: y outside, x inside.
GridRects(width, height) ==
    [k \in 1..(gridSize * gridSize) |->
        RegionRect((k - 1) % gridSize, (k - 1) \div gridSize, width, height)]

\* ctx.getImageData(sx, sy, sw, sh) throws IndexSizeError when sw or sh is 0.
getImageDataThrows(rect) == rect.width = 0 \/ rect.height = 0

\* segmentImage on a width x height image, flags[k] being what
\* analyzeRegionQuality answers for the k-th cell: the regions pushed, or the
\* exception of the first getImageData call that throws.
segmentImage(width, height, flags) ==
    LET rects == GridRects(width, height)
    IN  IF \E k \in 1..Len(rects) : getImageDataThrows(rects[k])
        THEN [threw |-> TRUE, regions |-> <<>>]
        ELSE [threw |-> FALSE,
              regions |-> [k \in 1..Len(rects) |->
                              [x |-> rects[k].x, y |-> rects[k].y,
                               width |-> rects[k].width, height |-> rects[k].height,
                               needsEnhancement |-> flags[k]]]]

\* regions.filter(r => r.needsEnhancement).length
needsEnhancementCountOf(regions) ==
    Cardinality({k \in 1..Len(regions) : regions[k].needsEnhancement})

\* if (needsEnhancementCount > regions.length * 0.5)
UseGlobal(count, total) == count * 2 > total

\* Answers of analyzeRegionQuality over the grid: the first `count` cells flagged.
FlagsWith(count) == [k \in 1..(gridSize * gridSize) |-> k <= count]

\* The numbers of flagged cells the refinement model tries: none, all, and the
\* three around one half.
NeedCounts ==
    LET total == gridSize * gridSize
    IN  {0, total \div 2 - 1, total \div 2, total \div 2 + 1, total}

\* ----------------------------------------------------------- pixel buffers
\* The per-pixel code of src/src/lib/imageEnhancement.ts and of the canvas
\* filters of the engine.  A JavaScript number is kept as a quotient n / d of
\* integers with d >= 0 (real arithmetic, not doubles); d = 0 is the result
\* of a division by zero or of arithmetic on undefined: NaN for n = 0,
\* Infinity for n > 0, -Infinity for n < 0.  An ImageData is a record
\* [width, height, data], data the RGBA bytes; the byte the code calls
\* data[i] is data[i + 1] here.

Abs(a) == IF a < 0 THEN -a ELSE a

Num(n, d) == [n |-> n, d |-> d]

NaN == Num(0, 0)

isNaN(x) == x.d = 0 /\ x.n = 0

\* Math.min(c, x) for an integer c: NaN stays NaN.
MathMin(c, x) ==
    IF isNaN(x) THEN NaN
    ELSE IF x.d = 0 THEN (IF x.n > 0 THEN Num(c, 1) ELSE x)
    ELSE IF x.n > c * x.d THEN Num(c, 1) ELSE x

\* Math.max(c, x) for an integer c.
MathMax(c, x) ==
    IF isNaN(x) THEN NaN
    ELSE IF x.d = 0 THEN (IF x.n < 0 THEN Num(c, 1) ELSE x)
    ELSE IF x.n < c * x.d THEN Num(c, 1) ELSE x

\* The store into a Uint8ClampedArray element: NaN becomes 0, the value is
\* clamped to 0..255 and rounded to the nearest integer, ties to even.
ToUint8Clamp(x) ==
    IF x.d = 0 THEN (IF x.n > 0 THEN 255 ELSE 0)
    ELSE IF x.n <= 0 THEN 0
    ELSE IF x.n >= 255 * x.d THEN 255
    ELSE LET f  == x.n \div x.d
             r2 == 2 * (x.n % x.d)
         IN  IF r2 > x.d \/ (r2 = x.d /\ f % 2 = 1) THEN f + 1 ELSE f

\* Math.round: the nearest integer, ties upwards (x finite).
MathRound(x) == (2 * x.n + x.d) \div (2 * x.d)

\* data[i] of a typed array: undefined outside 0..length-1.
InBounds(data, i) == 0 <= i /\ i < Len(data)

ReadByte(data, i) == IF InBounds(data, i) THEN Num(data[i + 1], 1) ELSE NaN

\* new ImageData(data, width, height) throws unless data.length = 4 * width * height.
ImageData(data, width, height) ==
    [width |-> width, height |-> height, data |-> data,
     threw |-> Len(data) # 4 * width * height \/ width = 0 \/ height = 0]

\* The values a filter stores, element by element, become the bytes of the new
\* array; nan records whether any stored RGB value was NaN.
Stored(values) == [k \in 1..Len(values) |-> ToUint8Clamp(values[k])]

StoredNaN(values) == \E k \in 1..Len(values) : k % 4 # 0 /\ isNaN(values[k])

\* for (let i = 0; i < data.length; i += 4): the three RGB values F computes
\* from (r, g, b), and enhancedData[i + 3] = Alpha(data[i + 3]).
PerPixel(data, F(_, _, _), Alpha(_)) ==
    [k \in 1..Len(data) |->
        LET i == 4 * ((k - 1) \div 4)
            c == (k - 1) % 4
        IN  IF c = 3 THEN Num(Alpha(data[i + 4]), 1)
            ELSE F(data[i + 1], data[i + 2], data[i + 3])[c + 1]]

\* enhancedData[i + 3] = data[i + 3]
KeepAlphaOpaque(a) == 255

KeepAlpha(a) == a

\* 0.299 * r + 0.587 * g + 0.114 * b, in thousandths.
luminance1000(r, g, b) == 299 * r + 587 * g + 114 * b

\* applyAutoEnhancement: r * 1.2, g * 1.25, b * 1.15.
autoPixel(r, g, b) ==
    << MathMin(255, Num(r * 12, 10)), MathMin(255, Num(g * 125, 100)),
       MathMin(255, Num(b * 115, 100)) >>

\* 1000 * Math.sin(x * Math.PI) for x = x1000 / 1000 in 0..1, by Bhaskara's
\* quotient 16 x (1 - x) / (5 - 4 x (1 - x)) (within 2 thousandths).
sin1000(x1000) ==
    LET t == x1000 * (1000 - x1000)
    IN  (16 * t) \div (5000 - (4 * t) \div 1000)

\* applyHDREffect: factor = 1.4 + 0.6 * sin(luminance * PI), in thousandths.
hdrPixel(r, g, b) ==
    LET factor == 1400 + (600 * sin1000(luminance1000(r, g, b) \div 255)) \div 1000
    IN  << MathMin(255, Num(r * factor * 12, 10000)),
           MathMin(255, Num(g * factor * 115, 100000)),
           MathMin(255, Num(b * factor, 1000)) >>

\* applyNightMode: brightnessFactor = 2.0 - (luminance / 255) * 0.8
\*                                  = (5100000 - 8 * luminance1000) / 2550000.
nightPixel(r, g, b) ==
    LET bf   == 5100000 - 8 * luminance1000(r, g, b)
        boost == b * bf
        blue  == b * 3060000
    IN  << MathMin(255, Num(r * bf, 2550000)), MathMin(255, Num(g * bf, 2550000)),
           MathMin(255, Num(IF boost > blue THEN boost ELSE blue, 2550000)) >>

\* applyPortraitMode
isSkinTone(r, g, b) ==
    r > 95 /\ g > 40 /\ b > 20 /\ r > g /\ r > b /\ Abs(r - g) > 15

portraitPixel(r, g, b) ==
    IF isSkinTone(r, g, b)
    THEN << MathMin(255, Num(r * 11, 10)), MathMin(255, Num(g * 105, 100)),
            MathMin(255, Num(b * 95, 100)) >>
    ELSE << MathMin(255, Num(r * 12, 10)), MathMin(255, Num(g * 115, 100)),
            MathMin(255, Num(b * 11, 10)) >>

\* if (max > 0) of applyColorPop, without the test.
RatiosDefinedAlways(max) == TRUE

\* if (max > 0) of applyColorPop: the ratios r / max are taken only then.
RatiosDefined(max) == max > 0

\* applyColorPop: satBoost = 1.5 - delta * 0.5 = (765 - (max - min)) / 510 and
\* r + (r - r * (r / max)) * satBoost.
colorPixel(r, g, b) ==
    LET max == Max(r, Max(g, b))
        min == Min(r, Min(g, b))
        sat == 765 - (max - min)
        pop(v) == Num(v * max * 510 + (v * max - v * v) * sat, max * 510)
    IN  IF RatiosDefined(max)
        THEN << MathMin(255, pop(r)), MathMin(255, pop(g)), MathMin(255, pop(b)) >>
        ELSE << Num(r, 1), Num(g, 1), Num(b, 1) >>

\* applyStyleTransfer: shadows, midtones, highlights by luminance.
stylePixel(r, g, b) ==
    LET lum == luminance1000(r, g, b)
    IN  IF lum < 120000
        THEN << MathMax(0, Num(r * 9, 10)), MathMin(255, Num(g * 11, 10)),
                MathMin(255, Num(b * 12, 10)) >>
        ELSE IF lum >= 120000 /\ lum < 180000
        THEN << MathMin(255, Num(r * 11, 10)), MathMin(255, Num(g * 11, 10)),
                MathMin(255, Num(b * 105, 100)) >>
        ELSE << MathMin(255, Num(r * 115, 100)), MathMin(255, Num(g * 105, 100)),
                MathMax(0, Num(b * 9, 10)) >>

\* The pixel (x, y) of the element k = i + 1 of a width-wide buffer.
PixelX(k, width) == ((k - 1) \div 4) % width

PixelY(k, width) == ((k - 1) \div 4) \div width

\* for (let y = 1; y < height - 1; y++) for (let x = 1; x < width - 1; x++),
\* with the loops started at 0.
KernelLoopFromZero(x, y, width, height) ==
    0 <= x /\ x < width - 1 /\ 0 <= y /\ y < height - 1

\* for (let y = 1; y < height - 1; y++) for (let x = 1; x < width - 1; x++)
KernelLoop(x, y, width, height) ==
    1 <= x /\ x < width - 1 /\ 1 <= y /\ y < height - 1

\* if (x === 0 || x === width - 1 || y === 0 || y === height - 1)
IsBorder(x, y, width, height) ==
    x = 0 \/ x = width - 1 \/ y = 0 \/ y = height - 1

\* The offsets from idx + c of the nine samples of the 3x3 kernel.
KernelOffsets(width) ==
    << -(width * 4) - 4, -(width * 4), -(width * 4) + 4, -4, 0, 4,
       width * 4 - 4, width * 4, width * 4 + 4 >>

\* The pixels the kernel loop visits.
KernelPixels(width, height) ==
    {p \in (0..(width - 1)) \X (0..(height - 1)) : KernelLoop(p[1], p[2], width, height)}

\* The indices applyDetailBoost reads: the kernel samples and the alpha of the
\* pixels of the kernel loop, the four bytes of the border pixels.
detailReads(width, height) ==
    LET len == width * height * 4
        idx(p) == (p[2] * width + p[1]) * 4
    IN  UNION {{idx(p) + KernelOffsets(width)[o] + c : o \in 1..9, c \in 0..2}
                    \cup {idx(p) + 3} : p \in KernelPixels(width, height)}
        \cup {i \in 0..(len - 1) :
                IsBorder(PixelX(i + 1, width), PixelY(i + 1, width), width, height)}

\* How often applyDetailBoost writes enhancedData[i]: once in the kernel loop
\* and once in the border loop, where the pixel is of that loop.
detailWrites(width, height) ==
    [k \in 1..(width * height * 4) |->
        LET x == PixelX(k, width)
            y == PixelY(k, width)
        IN  (IF KernelLoop(x, y, width, height) THEN 1 ELSE 0)
            + (IF IsBorder(x, y, width, height) THEN 1 ELSE 0)]

\* applyDetailBoost, the values stored: sharpened = data + (data - blurred) * 1.5
\* = (15 * data - sum of the nine samples) / 6 in the kernel loop, data * 1.2 in
\* the border loop, which runs second; an element no loop writes keeps the 0 of
\* the new array.
detailValues(imageData) ==
    LET data   == imageData.data
        width  == imageData.width
        height == imageData.height
    IN  [k \in 1..Len(data) |->
            LET x   == PixelX(k, width)
                y   == PixelY(k, width)
                c   == (k - 1) % 4
                i   == k - 1
                smp == [o \in 1..9 |-> ReadByte(data, i + KernelOffsets(width)[o])]
                sum == SeqSum([o \in 1..9 |-> smp[o].n])
            IN  IF IsBorder(x, y, width, height)
                THEN (IF c = 3 THEN Num(KeepAlpha(data[k]), 1)
                      ELSE MathMin(255, Num(data[k] * 12, 10)))
                ELSE IF KernelLoop(x, y, width, height)
                THEN (IF c = 3 THEN Num(KeepAlpha(data[k]), 1)
                      ELSE IF \E o \in 1..9 : isNaN(smp[o]) THEN NaN
                      ELSE MathMin(255, MathMax(0, Num(15 * data[k] - sum, 6))))
                ELSE Num(0, 1)]

\* The switch of enhanceImage (imageEnhancement.ts): the values the strategy
\* of the option stores.
strategyValues(option, imageData) ==
    CASE option = "hdr"      -> PerPixel(imageData.data, hdrPixel, KeepAlpha)
      [] option = "night"    -> PerPixel(imageData.data, nightPixel, KeepAlpha)
      [] option = "portrait" -> PerPixel(imageData.data, portraitPixel, KeepAlpha)
      [] option = "color"    -> PerPixel(imageData.data, colorPixel, KeepAlpha)
      [] option = "detail"   -> detailValues(imageData)
      [] option = "style"    -> PerPixel(imageData.data, stylePixel, KeepAlpha)
      [] OTHER               -> PerPixel(imageData.data, autoPixel, KeepAlpha)

\* new Uint8ClampedArray(data.length)
NewArrayLength(imageData) == Len(imageData.data)

\* A strategy of the unscaled pipeline: a new array of the input's length, the
\* stored values, new ImageData(enhancedData, width, height).
applyStrategy(option, imageData) ==
    LET values == strategyValues(option, imageData)
        n      == NewArrayLength(imageData)
        bytes  == [k \in 1..n |-> ToUint8Clamp(values[k])]
        out    == ImageData(bytes, imageData.width, imageData.height)
    IN  [width |-> out.width, height |-> out.height, data |-> out.data,
         threw |-> out.threw, nan |-> StoredNaN(SubSeq(values, 1, n))]

\* params.detailLevel and the like of a params object that may be {}.
NoParams == [defined |-> FALSE, detailLevel |-> 0, brightness |-> 0, contrast |-> 0]

\* One in-place pass of the custom parameter stage over the RGB bytes.
rgbPass(data, V(_)) ==
    [k \in 1..Len(data) |-> IF k % 4 = 0 THEN Num(data[k], 1) ELSE V(k)]

\* if (params.detailLevel > 50): data + (data - original) * (detailLevel / 50 - 1)
detailPass(params, data, original) ==
    LET V(k) == MathMin(255, MathMax(0,
                    Num(50 * data[k] + (data[k] - original[k]) * (params.detailLevel - 50), 50)))
    IN  IF params.defined /\ params.detailLevel > 50 THEN rgbPass(data, V)
        ELSE [k \in 1..Len(data) |-> Num(data[k], 1)]

\* if (params.brightness !== 0): data + 255 * (brightness / 100); undefined / 100 is NaN.
brightnessPass(params, data) ==
    LET V(k) == IF params.defined
                THEN MathMin(255, MathMax(0, Num(100 * data[k] + 255 * params.brightness, 100)))
                ELSE NaN
    IN  IF ~params.defined \/ params.brightness # 0 THEN rgbPass(data, V)
        ELSE [k \in 1..Len(data) |-> Num(data[k], 1)]

\* if (params.contrast !== 0): 128 + (data - 128) * (contrast / 100 + 1)
contrastPass(params, data) ==
    LET V(k) == IF params.defined
                THEN MathMin(255, MathMax(0,
                        Num(12800 + (data[k] - 128) * (params.contrast + 100), 100)))
                ELSE NaN
    IN  IF ~params.defined \/ params.contrast # 0 THEN rgbPass(data, V)
        ELSE [k \in 1..Len(data) |-> Num(data[k], 1)]

\* if (params) { ... } of enhanceImage: the three passes, each over the bytes the
\* pass before it stored.
customStage(params, enhancedData, imageData) ==
    LET v1 == detailPass(params, enhancedData.data, imageData.data)
        v2 == brightnessPass(params, Stored(v1))
        v3 == contrastPass(params, Stored(v2))
    IN  [enhancedData EXCEPT
            !.data = Stored(v3),
            !.nan  = enhancedData.nan \/ StoredNaN(v1) \/ StoredNaN(v2) \/ StoredNaN(v3)]

\* appliedEnhancements.push(...) of the case of the option in enhanceImage.
modeNames(option) ==
    CASE option = "hdr"      -> << "HDR Enhancement", "Tone Mapping", "Dynamic Range Expansion" >>
      [] option = "night"    -> << "Low-Light Enhancement", "Noise Reduction", "Shadow Boost" >>
      [] option = "portrait" -> << "Skin Tone Preservation", "Feature Enhancement",
                                   "Portrait Optimization" >>
      [] option = "color"    -> << "Color Vibrancy", "Adaptive Saturation", "Color Balance" >>
      [] option = "detail"   -> << "Detail Recovery", "Clarity Enhancement", "Edge Sharpening" >>
      [] option = "style"    -> << "Cinematic Style", "Color Grading", "Professional Look" >>
      [] OTHER               -> << "Auto Enhancement", "Smart Correction",
                                   "Adaptive Optimization" >>

\* The names the custom parameter stage pushes: brightnessFactor > 0 is false
\* for the NaN of an undefined params.brightness.
customNames(params) ==
    (IF params.defined /\ params.detailLevel > 50 THEN << "Custom Detail Enhancement" >>
     ELSE << >>)
    \o (IF ~params.defined \/ params.brightness # 0
        THEN << IF params.defined /\ params.brightness > 0 THEN "Brightness Boost"
                ELSE "Brightness Reduction" >>
        ELSE << >>)
    \o (IF ~params.defined \/ params.contrast # 0 THEN << "Contrast Adjustment" >> ELSE << >>)

\* The scaled pipeline (src/unnamed/part_000): putImageData on a canvas, then
\* drawImage(tempCanvas, 0, 0, newWidth, newHeight) and getImageData.  The
\* canvas keeps nothing of a pixel of alpha 0; the scaling is taken as the
\* nearest source pixel (the smoothing of the browser is not in the source).
drawImageScaled(imageData, qualityFactor) ==
    LET newWidth  == imageData.width * qualityFactor
        newHeight == imageData.height * qualityFactor
    IN  [width |-> newWidth, height |-> newHeight,
         data |-> [k \in 1..(newWidth * newHeight * 4) |->
            LET x   == PixelX(k, newWidth) \div qualityFactor
                y   == PixelY(k, newWidth) \div qualityFactor
                src == (y * imageData.width + x) * 4
            IN  IF imageData.data[src + 4] = 0 THEN 0
                ELSE imageData.data[src + 1 + ((k - 1) % 4)]]]

\* applyDetailBoost of the scaled pipeline: a copy of the scaled data, and in
\* the kernel loop data + edge * 0.5 with edge = 4 * center - left - right -
\* top - bottom.
scaledDetailValues(scaledData) ==
    LET data  == scaledData.data
        width == scaledData.width
    IN  [k \in 1..Len(data) |->
            IF (k - 1) % 4 # 3 /\ KernelLoop(PixelX(k, width), PixelY(k, width),
                                              width, scaledData.height)
            THEN LET smp  == << ReadByte(data, k - 1 - 4), ReadByte(data, k - 1 + 4),
                                ReadByte(data, k - 1 - width * 4),
                                ReadByte(data, k - 1 + width * 4) >>
                     edge == 4 * data[k] - smp[1].n - smp[2].n - smp[3].n - smp[4].n
                 IN  IF \E o \in 1..4 : isNaN(smp[o]) THEN NaN
                     ELSE MathMin(255, MathMax(0, Num(2 * data[k] + edge, 2)))
            ELSE Num(data[k], 1)]

\* new ImageData(enhancedData, newWidth, newHeight) with the old width.
ScaledWidthOld(imageData, qualityFactor) == imageData.width

\* const newWidth = width * qualityFactor
ScaledWidth(imageData, qualityFactor) == imageData.width * qualityFactor

\* A strategy of the scaled pipeline: the per-pixel code of the unscaled one
\* over the scaled data (auto returns scaledData itself, written in place).
applyScaledStrategy(option, imageData, qualityFactor) ==
    LET scaledData == drawImageScaled(imageData, qualityFactor)
        values == IF option = "detail" THEN scaledDetailValues(scaledData)
                  ELSE strategyValues(option, scaledData)
        out    == ImageData(Stored(values), ScaledWidth(imageData, qualityFactor),
                            imageData.height * qualityFactor)
    IN  [width |-> out.width, height |-> out.height, data |-> out.data,
         threw |-> out.threw, nan |-> StoredNaN(values)]

\* if (px >= 0 && px < width) of boxBlur
InImage(p, size) == p >= 0 /\ p < size

\* The divisor of boxBlur, were it the size of the kernel.
blurCountKernel(taken, radius) == 2 * radius + 1

\* count++ for every sample taken: the divisor of boxBlur.
blurCount(taken, radius) == Cardinality(taken)

\* One pass of boxBlur over src: for each RGB element the sum of the samples
\* at -radius..radius along the row (step 4) or the column (step width * 4)
\* that lie inside the image, divided by count.
blurPass(src, width, height, radius, horizontal) ==
    [k \in 1..Len(src) |->
        IF k % 4 = 0 THEN Num(src[k], 1)
        ELSE LET pos   == IF horizontal THEN PixelX(k, width) ELSE PixelY(k, width)
                 size  == IF horizontal THEN width ELSE height
                 step  == IF horizontal THEN 4 ELSE width * 4
                 taken == {kx \in (-radius)..radius : InImage(pos + kx, size)}
                 sum   == SeqSum([j \in 1..(2 * radius + 1) |->
                              IF (j - 1 - radius) \in taken
                              THEN src[k + (j - 1 - radius) * step] ELSE 0])
             IN  Num(sum, blurCount(taken, radius))]

\* boxBlur(imgData, radius): the horizontal pass over a copy of the data, the
\* vertical pass over its result; result[i + 3] = data[i + 3].
boxBlur(imgData, radius) ==
    LET temp   == Stored(blurPass(imgData.data, imgData.width, imgData.height, radius, TRUE))
        values == blurPass(temp, imgData.width, imgData.height, radius, FALSE)
        result == [k \in 1..Len(temp) |->
                      IF k % 4 = 0 THEN KeepAlpha(imgData.data[k]) ELSE ToUint8Clamp(values[k])]
    IN  [width |-> imgData.width, height |-> imgData.height, data |-> result, temp |-> temp]

\* if (Math.abs(diff) > threshold), the threshold itself included.
ExceedsThresholdInclusive(diff) == Abs(diff) >= 10

\* if (Math.abs(diff) > threshold) with threshold = 10
ExceedsThreshold(diff) == Abs(diff) > 10

\* unsharpMask(imgData, amount): over a copy of the data, data + diff * amount
\* for the RGB elements whose diff from boxBlur(imgData, 1) exceeds the
\* threshold.  imgData is the caller's buffer after the call.
unsharpMask(imgData, amount) ==
    LET blurredData == boxBlur(imgData, 1).data
        data == [k \in 1..Len(imgData.data) |->
                    LET diff == imgData.data[k] - blurredData[k]
                    IN  IF k % 4 # 0 /\ ExceedsThreshold(diff)
                        THEN ToUint8Clamp(MathMin(255, MathMax(0,
                                Num(imgData.data[k] * amount.d + diff * amount.n, amount.d))))
                        ELSE imgData.data[k]]
    IN  [width |-> imgData.width, height |-> imgData.height, data |-> data,
         imgData |-> imgData]

\* applySharpening(imageData, strength): unsharpMask(imgData, strength / 100).
applySharpening(imgData, strength) == unsharpMask(imgData, Num(strength, 100))

\* if (i % (pixelData.width * 4) < pixelData.width * 4 - 4 &&
\*     i < data.length - pixelData.width * 4) of analyzeRegionQuality
NotAtEdge(i, width, length) ==
    i % (width * 4) < width * 4 - 4 /\ i < length - width * 4

\* The indices analyzeRegionQuality reads in its loop: r, g, b of every pixel,
\* and of the pixel to the right and of the pixel below where the test passes.
analyzeReads(pixelData) ==
    LET length == Len(pixelData.data)
        width  == pixelData.width
        starts == {i \in 0..(length - 1) : i % 4 = 0}
    IN  UNION {{i, i + 1, i + 2} : i \in starts}
        \cup UNION {{i + 4, i + 5, i + 6, i + width * 4, i + width * 4 + 1,
                     i + width * 4 + 2} :
                    i \in {j \in starts : NotAtEdge(j, width, length)}}

\* Math.floor(Math.random() * (size - 2)) + 1 for Math.random() = thousandths / 1000.
sampleCoordinate(size, thousandths) == ((thousandths * (size - 2)) \div 1000) + 1

\* The indices detectBlurLevel and calculateLocalEdges read for the sample
\* (x, y): r, g, b at idx, at rightIdx = idx + 4 and at bottomIdx = idx + width * 4.
sampleReads(x, y, width) ==
    LET idx == (y * width + x) * 4
    IN  {idx + o + c : o \in {0, 4, width * 4}, c \in 0..2}

\* detectBlurLevel(imageData) with (x, y) among its samples: the indices read
\* for it, and whether blurValue is NaN, as it is once a luminance is computed
\* from an undefined element.
detectBlurLevel(imageData, x, y) ==
    LET reads == sampleReads(x, y, imageData.width)
    IN  [reads |-> reads, nan |-> \E i \in reads : ~InBounds(imageData.data, i)]

\* calculateImprovementMetrics(original, enhanced) with (x, y) among the
\* samples of its loop and (bx, by) among those of its detectBlurLevel calls:
\* improvement is NaN once a blur value or an edge intensity is.
calculateImprovementMetrics(original, enhanced, x, y, bx, by) ==
    LET reads == sampleReads(x, y, original.width)
        blur1 == detectBlurLevel(original, bx, by)
        blur2 == detectBlurLevel(enhanced, bx, by)
    IN  [reads |-> reads \cup blur1.reads \cup blur2.reads,
         nan |-> \/ blur1.nan \/ blur2.nan
                 \/ \E i \in reads : ~InBounds(original.data, i) \/ ~InBounds(enhanced.data, i)]

\* ------------------------------------------------------ colour conversions
\* The RGB -> HSL -> RGB code of the colour filters of the engine, in exact
\* quotients kept in lowest terms.

\* F(x) with x evaluated once: an argument of an operator is evaluated anew
\* at each of its uses in the body.
With(x, F(_)) == CHOOSE y \in {F(v) : v \in {x}} : TRUE

RECURSIVE Gcd(_, _)
Gcd(a, b) == IF b = 0 THEN a ELSE Gcd(b, a % b)

Reduce(x) ==
    With(<< x, Gcd(Abs(x.n), x.d) >>,
         LAMBDA v : IF v[2] = 0 THEN v[1] ELSE Num(v[1].n \div v[2], v[1].d \div v[2]))

RMul(x, y) ==
    With(<< Reduce(Num(x.n, y.d)), Reduce(Num(y.n, x.d)) >>,
         LAMBDA v : Reduce(Num(v[1].n * v[2].n, v[1].d * v[2].d)))

RAdd(x, y) ==
    With(<< x, y, Gcd(x.d, y.d) >>,
         LAMBDA v : Reduce(Num(v[1].n * (v[2].d \div v[3]) + v[2].n * (v[1].d \div v[3]),
                               (v[1].d \div v[3]) * v[2].d)))

RSub(x, y) == RAdd(x, Num(-y.n, y.d))

\* x / y for y > 0
RDiv(x, y) == RMul(x, Num(y.d, y.n))

RLess(x, y) == x.n * y.d < y.n * x.d

RMin(x, y) == With(<< x, y >>, LAMBDA v : IF RLess(v[2], v[1]) THEN v[2] ELSE v[1])

\* if (t > 1) t -= 1 alone.
wrapHueUpperOnly(t) ==
    With(t, LAMBDA t1 : IF RLess(Num(1, 1), t1) THEN RSub(t1, Num(1, 1)) ELSE t1)

\* if (t < 0) t += 1; if (t > 1) t -= 1;
wrapHue(t) ==
    With(With(t, LAMBDA t0 : IF RLess(t0, Num(0, 1)) THEN RAdd(t0, Num(1, 1)) ELSE t0),
         LAMBDA t1 : IF RLess(Num(1, 1), t1) THEN RSub(t1, Num(1, 1)) ELSE t1)

\* hue2rgb(p, q, t)
hue2rgb(p, q, t) ==
    With([p |-> p, q |-> q, t |-> wrapHue(t)],
         LAMBDA v :
            IF RLess(v.t, Num(1, 6))
            THEN RAdd(v.p, RMul(RMul(RSub(v.q, v.p), Num(6, 1)), v.t))
            ELSE IF RLess(v.t, Num(1, 2)) THEN v.q
            ELSE IF RLess(v.t, Num(2, 3))
            THEN RAdd(v.p, RMul(RMul(RSub(v.q, v.p), RSub(Num(2, 3), v.t)), Num(6, 1)))
            ELSE v.p)

\* The conversion to HSL of three channels r / scale, g / scale, b / scale:
\* max === min is achromatic, h = s = 0; switch (max) takes r before g before b.
channelsToHsl(r, g, b, scale) ==
    LET max == Max(r, Max(g, b))
        min == Min(r, Min(g, b))
        l   == Reduce(Num(max + min, 2 * scale))
        d   == max - min
        s   == IF max + min > scale THEN Reduce(Num(d, 2 * scale - max - min))
               ELSE Reduce(Num(d, max + min))
        h6  == IF max = r THEN RAdd(Num(g - b, d), Num(IF g < b THEN 6 ELSE 0, 1))
               ELSE IF max = g THEN RAdd(Num(b - r, d), Num(2, 1))
               ELSE RAdd(Num(r - g, d), Num(4, 1))
    IN  IF max = min THEN [h |-> Num(0, 1), s |-> Num(0, 1), l |-> l]
        ELSE [h |-> RDiv(h6, Num(6, 1)), s |-> s, l |-> l]

\* const r = data[i] / 255, ... and the conversion to HSL.
rgbToHsl(r, g, b) == channelsToHsl(r, g, b, 255)

\* if (s === 0) { r1 = g1 = b1 = l } of the conversion back
IsAchromatic(s) == s.n = 0

\* const q = l < 0.5 ? l * (1 + s) : l + s - l * s; const p = 2 * l - q;
hslToRgb(h, s, l) ==
    With([h |-> h, s |-> s, l |-> l],
         LAMBDA a :
            IF IsAchromatic(a.s) THEN << a.l, a.l, a.l >>
            ELSE With(IF 2 * a.l.n < a.l.d THEN RMul(a.l, RAdd(Num(1, 1), a.s))
                      ELSE RSub(RAdd(a.l, a.s), RMul(a.l, a.s)),
                      LAMBDA q :
                        With(RSub(RMul(Num(2, 1), a.l), q),
                             LAMBDA p :
                                << hue2rgb(p, q, RAdd(a.h, Num(1, 3))),
                                   hue2rgb(p, q, a.h),
                                   hue2rgb(p, q, RSub(a.h, Num(1, 3))) >>)))

\* data[i] = Math.round(r1 * 255), stored in the clamped array.
roundChannel(v) ==
    With(RMul(v, Num(255, 1)), LAMBDA x : ToUint8Clamp(Num(MathRound(x), 1)))

\* One pixel of applyColorEnhancement(imageData, strength):
\* s = Math.min(1, s * (1 + strength / 100)) between the two conversions.
\* strength is a quotient, as applyColorPop passes colorIntensity * 1.5.
colorEnhancementPixel(r, g, b, strength) ==
    With(<< rgbToHsl(r, g, b), RAdd(Num(1, 1), RDiv(strength, Num(100, 1))) >>,
         LAMBDA v :
            With(RMin(Num(1, 1), RMul(v[1].s, v[2])),
                 LAMBDA s :
                    With(hslToRgb(v[1].h, s, v[1].l),
                         LAMBDA rgb :
                            [rgb |-> << roundChannel(rgb[1]), roundChannel(rgb[2]),
                                        roundChannel(rgb[3]) >>,
                             h |-> v[1].h, s |-> s, l |-> v[1].l])))

\* The hue tests of applyColorPop: blues and greens, reds and oranges.
inGreenBlue(h) ==
    \/ RLess(Num(4, 10), h) /\ RLess(h, Num(7, 10))
    \/ RLess(Num(1, 10), h) /\ RLess(h, Num(4, 10))

inRedOrange(h) == RLess(h, Num(1, 10)) \/ RLess(Num(9, 10), h)

\* One pixel of applyColorPop(imageData, params) of the engine:
\* applyColorEnhancement with colorIntensity * 1.5, then s * 1.3 or s * 1.25 by
\* hue and l * 0.9 or l + (1 - l) * 0.1 between the two conversions.  s is the
\* saturation converted back to RGB.
colorPopPixel(r, g, b, colorIntensity) ==
    With(colorEnhancementPixel(r, g, b, Num(colorIntensity * 3, 2)).rgb,
         LAMBDA first :
            With(rgbToHsl(first[1], first[2], first[3]),
                 LAMBDA hsl :
                    With(IF inGreenBlue(hsl.h) THEN RMin(Num(1, 1), RMul(hsl.s, Num(13, 10)))
                         ELSE hsl.s,
                         LAMBDA s1 :
                            With(<< IF inRedOrange(hsl.h)
                                    THEN RMin(Num(1, 1), RMul(s1, Num(125, 100))) ELSE s1,
                                    IF 2 * hsl.l.n < hsl.l.d THEN RMul(hsl.l, Num(9, 10))
                                    ELSE RAdd(hsl.l, RMul(RSub(Num(1, 1), hsl.l), Num(1, 10))) >>,
                                 LAMBDA sl :
                                    With(hslToRgb(hsl.h, sl[1], sl[2]),
                                         LAMBDA rgb :
                                            [rgb |-> << roundChannel(rgb[1]),
                                                        roundChannel(rgb[2]),
                                                        roundChannel(rgb[3]) >>,
                                             h |-> hsl.h, s |-> sl[1], l |-> sl[2]])))))

\* localContrastEnhancement(imgData, radius, amount) with amount = 0.3, in
\* place: localAvg + (pixel - localAvg) * 1.3 against boxBlur(imgData, radius).
localContrastEnhancement(imgData, radius) ==
    LET blurredData == boxBlur(imgData, radius).data
    IN  [imgData EXCEPT !.data =
            [k \in 1..Len(imgData.data) |->
                IF k % 4 = 0 THEN imgData.data[k]
                ELSE ToUint8Clamp(MathMin(255, MathMax(0, Num(MathRound(
                        Num(10 * blurredData[k] + 13 * (imgData.data[k] - blurredData[k]),
                            10)), 1))))]]

\* r = data / 255; r = r * exposure; r = r / (1 + r), in hundredths rounded
\* down, with exposure = 1.3 + brightness / 200 = exposure200 / 200.  gamma is
\* 1.0, so Math.pow(r, 1 / gamma) is r.
toneMap100(v, exposure200) == (100 * v * exposure200) \div (51000 + v * exposure200)

\* One pixel of applyHDREffect(imageData, params) of the engine after the local
\* contrast: exposure and Reinhard tone mapping, then in HSL
\* l = 0.5 + (l - 0.5) * contrast and s = Math.min(1, s * saturation), with
\* contrast = 1.2 + params.contrast / 200, saturation = 1.1 + colorIntensity / 200.
hdrTonePixel(r, g, b, params) ==
    With(channelsToHsl(toneMap100(r, 260 + params.brightness),
                       toneMap100(g, 260 + params.brightness),
                       toneMap100(b, 260 + params.brightness), 100),
         LAMBDA hsl :
            With(<< RAdd(Num(1, 2), RMul(RSub(hsl.l, Num(1, 2)),
                                         Num(240 + params.contrast, 200))),
                    RMin(Num(1, 1), RMul(hsl.s, Num(220 + params.colorIntensity, 200))) >>,
                 LAMBDA ls :
                    With(hslToRgb(hsl.h, ls[2], ls[1]),
                         LAMBDA rgb :
                            [c \in 1..3 |->
                                MathMin(255, MathMax(0,
                                    Num(MathRound(RMul(rgb[c], Num(255, 1))), 1)))])))

\* applyHDREffect(imageData, params) of the engine on the ImageData of its canvas.
applyHDREffect(imgData, params) ==
    LET contrasted == localContrastEnhancement(imgData, 10)
        values == PerPixel(contrasted.data,
                           LAMBDA r, g, b : hdrTonePixel(r, g, b, params), KeepAlpha)
    IN  [width |-> imgData.width, height |-> imgData.height, data |-> Stored(values),
         threw |-> FALSE, nan |-> StoredNaN(values)]

\* ------------------------------------------------------------------- state

VARIABLES
    modelState,             \* this.modelState
    pc,                     \* where the enhance() call stands
    image,                  \* enhance(image, ...): the File
    option,                 \* enhance(..., option, ...)
    beforeImageUrl,         \* locals of enhance()
    processedImageData,
    bestResult,
    bestMetrics,
    appliedEnhancements,
    iteration,
    metrics,                \* const metrics of the last round
    result,                 \* the EnhancementResult enhance() resolved with
    error,                  \* the error enhance() rejected with
    imageData,              \* locals of applyEnhancement()
    enhancedImageData,
    stageEnhancements,      \* applyEnhancement's own appliedEnhancements list
    pending,                \* the stages of the switch case still to run
    needsEnhancementCount,
    rounds,                 \* history: one record per scored round, `input` the
                            \*   image applyEnhancement was called with, `stages` the
                            \*   stage names behind its candidate (none when the
                            \*   catch of applyEnhancement returned the input)
    thrown,                 \* history: the stages that threw in this applyEnhancement
    stopReason,             \* history: the exit the loop took
    applyCount,             \* history: applyEnhancement calls of this enhance()
    segPc,                  \* segmentation model: "idle", or "done" after a call
    segInput,               \* segmentation model: the image size
    segResult,              \* segmentation model: what segmentImage returned
    pxPc,                   \* pixel code: "idle", "loaded", or "done" after a call
    pxImageData,            \* pixel code: the ImageData a caller holds
    pxCall,                 \* pixel code: the function called and its arguments
    pxResult,               \* pixel code: what the call returned
    initPc,                 \* callers: where each initialize() call stands
    initReturned,           \* callers: what each caller's last initialize() returned
    enhPc,                  \* callers: where the concurrent enhance() call stands
    enhError,               \* callers: the error that enhance() call rejected with
    loadFailed,             \* history: a pipeline(...) load has rejected
    loadsStarted,           \* history: initialize() calls that went on to load
    hookVersion,            \* hook: "none" before mount, else which useEnhancement
    localStorage,           \* hook: the item 'enhancementCount'
    hook,                   \* hook: the useState values of useEnhancement
    effectPc,               \* hook: where the mount effect's initializeEngine stands
    handlePc,               \* hook: where each handleEnhance call stands
    handleReturned          \* hook: how each handleEnhance call last ended

engineVars ==
    << modelState, pc, image, option, beforeImageUrl, processedImageData, bestResult,
       bestMetrics, appliedEnhancements, iteration, metrics, result, error, imageData,
       enhancedImageData, stageEnhancements, pending, needsEnhancementCount, rounds,
       thrown, stopReason, applyCount >>

segVars == << segPc, segInput, segResult >>

pxVars == << pxPc, pxImageData, pxCall, pxResult >>

initVars == << initPc, initReturned, enhPc, enhError, loadFailed, loadsStarted >>

hookVars == << hookVersion, localStorage, hook, effectPc, handlePc, handleReturned >>

callerVars == << initVars, hookVars >>

vars == << engineVars, segVars, pxVars, callerVars >>

callLocals ==
    << beforeImageUrl, processedImageData, bestResult, bestMetrics, appliedEnhancements,
       iteration, metrics >>

applyLocals == << imageData, enhancedImageData, stageEnhancements, pending, needsEnhancementCount >>

NoFile == [valid |-> FALSE, img |-> NoImage]

NoSeg == [threw |-> FALSE, regions |-> <<>>]

EngineInit ==
    /\ modelState = [superResolution |-> null, denoise |-> null,
                     initialized |-> FALSE, initializing |-> FALSE]
    /\ pc = "idle"
    /\ image = NoFile
    /\ option = "auto"
    /\ beforeImageUrl = NoUrl
    /\ processedImageData = NoUrl
    /\ bestResult = NoUrl
    /\ bestMetrics = undefined
    /\ appliedEnhancements = <<>>
    /\ iteration = 0
    /\ metrics = undefined
    /\ result = NoResult
    /\ error = "none"
    /\ imageData = NoUrl
    /\ enhancedImageData = NoUrl
    /\ stageEnhancements = <<>>
    /\ pending = <<>>
    /\ needsEnhancementCount = 0
    /\ rounds = <<>>
    /\ thrown = <<>>
    /\ stopReason = "none"
    /\ applyCount = 0

SegInit ==
    /\ segPc = "idle"
    /\ segInput = [width |-> 0, height |-> 0]
    /\ segResult = NoSeg

\* ------------------------------------------- the pixel code on its own
\* The strategies of imageEnhancement.ts and the canvas filters of the engine
\* are functions of one ImageData; a caller loads a buffer and calls one.

PixelTable ==
    << << 0, 0, 0, 0 >>,         << 255, 255, 255, 255 >>, << 200, 120, 100, 255 >>,
       << 100, 100, 100, 255 >>, << 120, 120, 120, 128 >>, << 10, 200, 30, 255 >>,
       << 0, 0, 255, 255 >>,     << 130, 100, 160, 7 >>,   << 90, 60, 20, 255 >>,
       << 250, 240, 10, 200 >> >>

\* The pixel colours of the buffers: the first MaxColour + 1 of the table.
Colour(j) == PixelTable[(j % (MaxColour + 1)) + 1]

\* The buffer of width x height pixels that starts at colour `start` and moves
\* `step` colours on with every pixel.
Buffer(width, height, start, step) ==
    [width |-> width, height |-> height,
     data |-> [k \in 1..(width * height * 4) |->
                  Colour(start + step * ((k - 1) \div 4))[((k - 1) % 4) + 1]]]

\* The sizes of the buffers: each side up to MaxBufSide, up to MaxPixels pixels.
BufferSizes == {wh \in (1..MaxBufSide) \X (1..MaxBufSide) : wh[1] * wh[2] <= MaxPixels}

Buffers ==
    {Buffer(wh[1], wh[2], start, step) :
        wh \in BufferSizes, start \in 0..MaxColour, step \in {0, 1}}

\* The params objects of a call: the ends and the middle of the documented
\* ranges, and the default {} of enhanceImage.
ParamSets ==
    [defined : {TRUE}, detailLevel : {50, 100}, brightness : {-100, 0, 100},
     contrast : {-100, 0, 100}] \cup {NoParams}

\* quality === '2x' ? 2 : quality === '8x' ? 8 : 4
QualityFactors == {2, 4, 8}

NoCall == [fn |-> "none"]

PxInit ==
    /\ pxPc = "idle"
    /\ pxImageData = [width |-> 0, height |-> 0, data |-> <<>>]
    /\ pxCall = NoCall
    /\ pxResult = NoCall

\* --------------------------------------------- the callers of the engine

\* Who calls initialize(): the effect the hook runs on mount, the effect of
\* the page, and enhance() itself.
InitCallers == {"mount", "page", "enhance"}

\* handleEnhance calls that may overlap.
MaxCalls == 2

Calls == 1..MaxCalls

\* Maximum number of free enhancements.
FREE_TIER_LIMIT == 3

\* Strings are sequences of characters.
Digits == << "0", "1", "2", "3", "4", "5", "6", "7", "8", "9" >>

\* localStorage.getItem of an item never set: null, falsy like ''.
NoItem == << >>

\* enhancementCount.toString() of a count >= 0.
RECURSIVE toString(_)
toString(n) ==
    IF n < 10 THEN << Digits[n + 1] >>
    ELSE toString(n \div 10) \o << Digits[(n % 10) + 1] >>

\* parseInt(savedCount, 10) of a string of decimal digits, the only strings
\* the hook stores.
RECURSIVE parseInt(_)
parseInt(s) ==
    IF Len(s) = 0 THEN 0
    ELSE LET last == s[Len(s)]
         IN  10 * parseInt(SubSeq(s, 1, Len(s) - 1))
                + (CHOOSE d \in 0..9 : Digits[d + 1] = last)

\* The useState initial values of useEnhancement, savedCount the stored item;
\* enhancementResult 0 is null, usingFallback and apiAvailable are those of the
\* hook with fallback mode.
useState(savedCount) ==
    [selectedImage |-> FALSE,
     isProcessing |-> FALSE,
     enhancementResult |-> 0,
     enhancementCount |-> IF savedCount # << >> THEN parseInt(savedCount) ELSE 0,
     processingStage |-> "",
     isEngineInitialized |-> FALSE,
     usingFallback |-> FALSE,
     apiAvailable |-> TRUE]

CallerInit ==
    /\ initPc = [c \in InitCallers |-> "idle"]
    /\ initReturned = [c \in InitCallers |-> "none"]
    /\ enhPc = "idle"
    /\ enhError = "none"
    /\ loadFailed = FALSE
    /\ loadsStarted = 0
    /\ hookVersion = "none"
    /\ localStorage = NoItem
    /\ hook = useState(NoItem)
    /\ effectPc = "unmounted"
    /\ handlePc = [c \in Calls |-> "idle"]
    /\ handleReturned = [c \in Calls |-> "none"]

Init == EngineInit /\ SegInit /\ PxInit /\ CallerInit

\* ----------------------------------------------------------------- actions

\* What a stage that succeeds may return for `url`: an image of the same size.
Outputs(url) == {toDataURL([url.img EXCEPT !.shade = s]) : s \in Shades}

\* A call of the public initialize() while no enhance() call is running.
Initialize ==
    /\ pc = "idle"
    /\ \E outcome \in LoadOutcomes : modelState' = initialize(modelState, outcome)
    /\ UNCHANGED << pc, image, option, callLocals, result, error, applyLocals, rounds,
                    thrown, stopReason, applyCount, segVars, pxVars, callerVars >>

\* enhance(image, option): from the call to the first test of the loop.
\* initialize() is awaited when the engine is not initialized; loadImage
\* rejects for a file that does not decode.
Enhance ==
    /\ pc = "idle"
    /\ \E file \in Files, opt \in Options, outcome \in LoadOutcomes :
        /\ image' = file
        /\ option' = opt
        /\ modelState' = IF modelState.initialized THEN modelState
                         ELSE initialize(modelState, outcome)
        /\ beforeImageUrl' = createObjectURL(file)
        /\ IF file.valid
           THEN /\ processedImageData' = toDataURL(file.img)
                /\ bestResult' = toDataURL(file.img)
                /\ pc' = IF LoopContinues(0) THEN "apply" ELSE "finish"
                /\ error' = "none"
           ELSE /\ processedImageData' = NoUrl
                /\ bestResult' = NoUrl
                /\ pc' = "rejected"
                /\ error' = "InputError"
    /\ bestMetrics' = undefined
    /\ appliedEnhancements' = <<>>
    /\ iteration' = 0
    /\ UNCHANGED << metrics, result, applyLocals, rounds, thrown, stopReason, applyCount,
                    segVars, pxVars, callerVars >>

\* Faulty variant of RoundInput: every round starts from the original again.
RoundInputOriginal(processed, original) == original

\* processedImageData = await this.applyEnhancement(processedImageData, ...):
\* the image a round hands to applyEnhancement is the one the round before
\* left, and canvas.toDataURL of the original in the first round.
RoundInput(processed, original) == processed

\* The call applyEnhancement(processedImageData, option, params) of a round, up
\* to its switch: it throws, outside its try, when the engine is not initialized.
ApplyEnhancement ==
    /\ pc = "apply"
    /\ applyCount' = applyCount + 1
    /\ thrown' = <<>>
    /\ IF ~modelState.initialized
       THEN /\ pc' = "rejected"
            /\ error' = "Enhancement engine not initialized"
            /\ UNCHANGED applyLocals
       ELSE /\ imageData' = RoundInput(processedImageData, toDataURL(image.img))
            /\ enhancedImageData' = RoundInput(processedImageData, toDataURL(image.img))
            /\ stageEnhancements' = <<>>
            /\ needsEnhancementCount' = 0
            /\ pending' = IF option = "auto" THEN <<>> ELSE Pipeline(option)
            /\ pc' = IF option = "auto" THEN "segment" ELSE "stages"
            /\ error' = error
    /\ UNCHANGED << modelState, image, option, callLocals, result, rounds, stopReason,
                    segVars, pxVars, callerVars >>

\* case 'auto': segmentImage and the choice between the global pipeline and the
\* selective one.  An exception of segmentImage is caught by applyEnhancement,
\* which returns its input.
Segment ==
    /\ pc = "segment"
    /\ \E count \in NeedCounts :
        LET seg == segmentImage(imageData.img.width, imageData.img.height, FlagsWith(count))
            n   == needsEnhancementCountOf(seg.regions)
        IN  IF seg.threw
            THEN /\ processedImageData' = imageData
                 /\ thrown' = Append(thrown, "segmentImage")
                 /\ pc' = "score"
                 /\ UNCHANGED << pending, needsEnhancementCount >>
            ELSE /\ needsEnhancementCount' = n
                 /\ pending' = IF UseGlobal(n, Len(seg.regions)) THEN GlobalPipeline
                               ELSE SelectivePipeline
                 /\ pc' = "stages"
                 /\ UNCHANGED << processedImageData, thrown >>
    /\ UNCHANGED << modelState, image, option, beforeImageUrl, bestResult, bestMetrics,
                    appliedEnhancements, iteration, metrics, result, error, imageData,
                    enhancedImageData, stageEnhancements, rounds, stopReason, applyCount,
                    segVars, pxVars, callerVars >>

\* One awaited stage of the switch case.  applySuperResolution and
\* applyNoiseReduction catch their own exceptions; an exception of any other
\* stage reaches the catch of applyEnhancement, which returns imageData.
RunStage ==
    /\ pc = "stages"
    /\ pending # <<>>
    /\ \E throws \in BOOLEAN, out \in Outputs(enhancedImageData) :
        LET stage == Head(pending)
            local == CatchesLocally(stage.fn)
            res   == CASE stage.fn = "applySuperResolution" ->
                            applySuperResolution(enhancedImageData, modelState, throws, out)
                       [] stage.fn = "applyNoiseReduction" ->
                            applyNoiseReduction(enhancedImageData, modelState, throws, out)
                       [] OTHER -> out
        IN  /\ thrown' = IF throws THEN Append(thrown, stage.fn) ELSE thrown
            /\ IF throws /\ ~local
               THEN /\ processedImageData' = imageData
                    /\ pc' = "score"
                    /\ UNCHANGED << enhancedImageData, stageEnhancements, pending >>
               ELSE /\ enhancedImageData' = res
                    /\ stageEnhancements' = Append(stageEnhancements, stage.name)
                    /\ pending' = Tail(pending)
                    /\ IF Tail(pending) = <<>>
                       THEN processedImageData' = res /\ pc' = "score"
                       ELSE processedImageData' = processedImageData /\ pc' = "stages"
    /\ UNCHANGED << modelState, image, option, beforeImageUrl, bestResult, bestMetrics,
                    appliedEnhancements, iteration, metrics, result, error, imageData,
                    needsEnhancementCount, rounds, stopReason, applyCount, segVars, pxVars, callerVars >>

\* The rest of the loop body: computeQualityMetrics, the best-so-far update, the
\* three breaks, and iteration++ with the loop test when no break is taken.
Score ==
    /\ pc = "score"
    /\ LET m    == computeQualityMetrics(beforeImageUrl, processedImageData)
           stop == StopRule(m, bestMetrics)
       IN  /\ metrics' = m
           /\ bestResult' = IF IsNewBest(m, bestMetrics) THEN processedImageData ELSE bestResult
           /\ bestMetrics' = IF IsNewBest(m, bestMetrics) THEN m ELSE bestMetrics
           /\ iteration' = IF stop = "none" THEN iteration + 1 ELSE iteration
           /\ pc' = IF stop = "none" /\ LoopContinues(iteration + 1) THEN "apply" ELSE "finish"
           /\ stopReason' = IF stop # "none" THEN stop
                            ELSE IF LoopContinues(iteration + 1) THEN "none" ELSE "bound"
           /\ rounds' = Append(rounds,
                  [input |-> imageData, candidate |-> processedImageData, metrics |-> m,
                   stages |-> IF pending # <<>> THEN <<>> ELSE stageEnhancements])
    /\ UNCHANGED << modelState, image, option, beforeImageUrl, processedImageData,
                    appliedEnhancements, result, error, applyLocals, thrown, applyCount,
                    segVars, pxVars, callerVars >>

\* After the loop: the revert test and the result object.
Finish ==
    /\ pc = "finish"
    /\ LET revert == ShouldRevert(bestMetrics)
       IN  /\ bestResult' = IF revert THEN beforeImageUrl ELSE bestResult
           /\ appliedEnhancements' = IF revert THEN << RevertedLabel >> ELSE appliedEnhancements
    /\ result' = [before |-> beforeImageUrl, after |-> bestResult',
                  metrics |-> bestMetrics, appliedEnhancements |-> appliedEnhancements']
    /\ pc' = "returned"
    /\ UNCHANGED << modelState, image, option, beforeImageUrl, processedImageData,
                    bestMetrics, iteration, metrics, error, applyLocals, rounds, thrown,
                    stopReason, applyCount, segVars, pxVars, callerVars >>

\* The promise of enhance() has settled; the engine is ready for another call.
Settle ==
    /\ pc \in {"returned", "rejected"}
    /\ pc' = "idle"
    /\ image' = NoFile
    /\ option' = "auto"
    /\ beforeImageUrl' = NoUrl
    /\ processedImageData' = NoUrl
    /\ bestResult' = NoUrl
    /\ bestMetrics' = undefined
    /\ appliedEnhancements' = <<>>
    /\ iteration' = 0
    /\ metrics' = undefined
    /\ result' = NoResult
    /\ error' = "none"
    /\ imageData' = NoUrl
    /\ enhancedImageData' = NoUrl
    /\ stageEnhancements' = <<>>
    /\ pending' = <<>>
    /\ needsEnhancementCount' = 0
    /\ rounds' = <<>>
    /\ thrown' = <<>>
    /\ stopReason' = "none"
    /\ applyCount' = 0
    /\ UNCHANGED << modelState, segVars, pxVars, callerVars >>

Next ==
    \/ Initialize
    \/ Enhance
    \/ ApplyEnhancement
    \/ Segment
    \/ RunStage
    \/ Score
    \/ Finish
    \/ Settle

Spec == Init /\ [][Next]_vars

\* ------------------------------------------------- segmentation on its own

\* The image sizes segmentImage is tried on.
Sides == 1..MaxSide

\* A caller loads an image of some size.
SegLoad ==
    /\ segPc \in {"idle", "done"}
    /\ \E w \in Sides, h \in Sides : segInput' = [width |-> w, height |-> h]
    /\ segPc' = "loaded"
    /\ segResult' = NoSeg
    /\ UNCHANGED << engineVars, pxVars, callerVars >>

\* segmentImage(imageData) on the loaded image.
SegmentImage ==
    /\ segPc = "loaded"
    /\ \E count \in NeedCounts :
        segResult' = segmentImage(segInput.width, segInput.height, FlagsWith(count))
    /\ segPc' = "done"
    /\ UNCHANGED << segInput, engineVars, pxVars, callerVars >>

SegNext == SegLoad \/ SegmentImage

SegSpec == Init /\ [][SegNext]_vars

\* --------------------------------------------------- calls of the pixel code

\* getImageDataFromImage(img): the ImageData of the uploaded image.
GetImageData ==
    /\ pxPc = "idle"
    /\ pxImageData' \in Buffers
    /\ pxPc' = "loaded"
    /\ UNCHANGED << pxCall, pxResult, engineVars, segVars, callerVars >>

\* enhanceImage of imageEnhancement.ts: the strategy of the option, then the
\* custom parameter stage over its result.
EnhanceImage ==
    /\ pxPc = "loaded"
    /\ \E o \in Options, params \in ParamSets :
        LET strategy == applyStrategy(o, pxImageData)
        IN  /\ pxCall' = [fn |-> "enhanceImage", option |-> o, params |-> params]
            /\ pxResult' = [strategy |-> strategy,
                            enhancedData |-> customStage(params, strategy, pxImageData),
                            appliedEnhancements |-> modeNames(o) \o customNames(params)]
    /\ pxPc' = "done"
    /\ UNCHANGED << pxImageData, engineVars, segVars, callerVars >>

\* enhanceImage of the scaled pipeline: the strategy at a quality factor.
EnhanceImageScaled ==
    /\ pxPc = "loaded"
    /\ \E o \in Options, q \in QualityFactors :
        /\ pxCall' = [fn |-> "enhanceImageScaled", option |-> o, qualityFactor |-> q]
        /\ pxResult' = [enhancedData |-> applyScaledStrategy(o, pxImageData, q)]
    /\ pxPc' = "done"
    /\ UNCHANGED << pxImageData, engineVars, segVars, callerVars >>

\* boxBlur(imgData, radius): radius 1 of unsharpMask, and a radius wider than
\* the buffers as the 10 of localContrastEnhancement is for small images.
BoxBlur ==
    /\ pxPc = "loaded"
    /\ \E radius \in {1, MaxBufSide + 1} :
        /\ pxCall' = [fn |-> "boxBlur", radius |-> radius]
        /\ pxResult' = boxBlur(pxImageData, radius)
    /\ pxPc' = "done"
    /\ UNCHANGED << pxImageData, engineVars, segVars, callerVars >>

\* applySharpening(imageData, params.sharpness) on the ImageData of the canvas.
ApplySharpening ==
    /\ pxPc = "loaded"
    /\ \E sharpness \in {0, 65, 100} :
        /\ pxCall' = [fn |-> "applySharpening", sharpness |-> sharpness]
        /\ pxResult' = applySharpening(pxImageData, sharpness)
    /\ pxPc' = "done"
    /\ UNCHANGED << pxImageData, engineVars, segVars, callerVars >>

\* analyzeRegionQuality(pixelData): the indices its loop reads.
AnalyzeRegionQuality ==
    /\ pxPc = "loaded"
    /\ pxCall' = [fn |-> "analyzeRegionQuality"]
    /\ pxResult' = [reads |-> analyzeReads(pxImageData)]
    /\ pxPc' = "done"
    /\ UNCHANGED << pxImageData, engineVars, segVars, callerVars >>

\* The values of Math.random() tried, in thousandths.
Randoms == {0, 500, 999}

\* detectBlurLevel(imageData) on the loaded ImageData.
DetectBlurLevel ==
    /\ pxPc = "loaded"
    /\ \E u \in Randoms, v \in Randoms :
        LET x == sampleCoordinate(pxImageData.width, u)
            y == sampleCoordinate(pxImageData.height, v)
        IN  /\ pxCall' = [fn |-> "detectBlurLevel", x |-> x, y |-> y]
            /\ pxResult' = detectBlurLevel(pxImageData, x, y)
    /\ pxPc' = "done"
    /\ UNCHANGED << pxImageData, engineVars, segVars, callerVars >>

\* calculateImprovementMetrics(imageData, enhancedData) of enhanceImage, the
\* enhanced data that of the auto strategy.
CalculateImprovementMetrics ==
    /\ pxPc = "loaded"
    /\ \E u \in Randoms, v \in Randoms :
        LET x == sampleCoordinate(pxImageData.width, u)
            y == sampleCoordinate(pxImageData.height, v)
        IN  /\ pxCall' = [fn |-> "calculateImprovementMetrics", x |-> x, y |-> y]
            /\ pxResult' = calculateImprovementMetrics(pxImageData,
                                applyStrategy("auto", pxImageData), x, y, x, y)
    /\ pxPc' = "done"
    /\ UNCHANGED << pxImageData, engineVars, segVars, callerVars >>

\* The EnhancementStrengthParams of a call: the ends of the documented ranges
\* and the defaults.
StrengthParams ==
    [brightness : {-100, 100}, contrast : {-100, 100}, colorIntensity : {0, 100}]
        \cup {[brightness |-> 0, contrast |-> 10, colorIntensity |-> 60]}

\* applyHDREffect(imageData, params) of the engine.
ApplyHDREffect ==
    /\ pxPc = "loaded"
    /\ \E params \in StrengthParams :
        /\ pxCall' = [fn |-> "applyHDREffect", params |-> params]
        /\ pxResult' = [enhancedData |-> applyHDREffect(pxImageData, params)]
    /\ pxPc' = "done"
    /\ UNCHANGED << pxImageData, engineVars, segVars, callerVars >>

\* The alpha bytes of a buffer set to a.
WithAlpha(data, a) == [k \in 1..Len(data) |-> IF k % 4 = 0 THEN a ELSE data[k]]

\* The first byte of channel c moved by one.
WithChannelMoved(data, c) ==
    [k \in 1..Len(data) |-> IF k = c + 1 THEN (IF data[k] = 255 THEN 254 ELSE data[k] + 1)
                            ELSE data[k]]

\* calculatePSNR(img1Data, img2Data) against a second buffer of the same size:
\* the same bytes, other alphas, or one byte of one channel moved.
CalculatePSNR ==
    /\ pxPc = "loaded"
    /\ \E img2Data \in {pxImageData.data}
                        \cup {WithAlpha(pxImageData.data, a) : a \in {0, 128, 255}}
                        \cup {WithChannelMoved(pxImageData.data, c) : c \in 0..3} :
        /\ pxCall' = [fn |-> "calculatePSNR", img2Data |-> img2Data]
        /\ pxResult' = [psnr |-> calculatePSNR(pxImageData.data, img2Data)]
    /\ pxPc' = "done"
    /\ UNCHANGED << pxImageData, engineVars, segVars, callerVars >>

PixelNext ==
    \/ GetImageData
    \/ EnhanceImage
    \/ EnhanceImageScaled
    \/ BoxBlur
    \/ ApplySharpening
    \/ AnalyzeRegionQuality
    \/ CalculatePSNR
    \/ ApplyHDREffect
    \/ DetectBlurLevel
    \/ CalculateImprovementMetrics

PixelSpec == Init /\ [][PixelNext]_vars

\* ------------------------------------------- the colour filters on one pixel

ByteTable == << 0, 255, 128, 100, 200, 1, 254, 30, 127, 64, 129 >>

\* The byte values of the pixels tried: the first MaxByte + 1 of the table.
Bytes == {ByteTable[j + 1] : j \in 0..MaxByte}

\* The canvas holds one opaque pixel.
GetPixel ==
    /\ pxPc = "idle"
    /\ \E r \in Bytes, g \in Bytes, b \in Bytes :
        pxImageData' = [width |-> 1, height |-> 1, data |-> << r, g, b, 255 >>]
    /\ pxPc' = "loaded"
    /\ UNCHANGED << pxCall, pxResult, engineVars, segVars, callerVars >>

\* applyColorEnhancement(imageData, strength) on the pixel.
ApplyColorEnhancement ==
    /\ pxPc = "loaded"
    /\ \E strength \in {0, 60, 100} :
        /\ pxCall' = [fn |-> "applyColorEnhancement", strength |-> strength]
        /\ pxResult' = colorEnhancementPixel(pxImageData.data[1], pxImageData.data[2],
                                             pxImageData.data[3], Num(strength, 1))
    /\ pxPc' = "done"
    /\ UNCHANGED << pxImageData, engineVars, segVars, callerVars >>

\* applyColorPop(imageData, params) of the engine on the pixel.
ApplyColorPop ==
    /\ pxPc = "loaded"
    /\ \E colorIntensity \in {0, 60, 100} :
        /\ pxCall' = [fn |-> "applyColorPop", colorIntensity |-> colorIntensity]
        /\ pxResult' = colorPopPixel(pxImageData.data[1], pxImageData.data[2],
                                     pxImageData.data[3], colorIntensity)
    /\ pxPc' = "done"
    /\ UNCHANGED << pxImageData, engineVars, segVars, callerVars >>

ColorNext == GetPixel \/ ApplyColorEnhancement \/ ApplyColorPop

ColorSpec == Init /\ [][ColorNext]_vars

\* ------------------------------------- initialize() and enhance() interleaved
\* Every await of initialize() and of the head of enhance() is a step of its
\* own; the code between two awaits runs without interruption.

\* A call of initialize() by caller c up to its first await.
StartInitialize(c) ==
    LET entry == initializeEntry(modelState)
    IN  /\ initPc[c] = "idle"
        /\ entry = "load" => loadsStarted < MaxLoads
        /\ modelState' = IF entry = "load" THEN [modelState EXCEPT !.initializing = TRUE]
                         ELSE modelState
        /\ initPc' = IF entry = "load" THEN [initPc EXCEPT ![c] = "superResolution"] ELSE initPc
        /\ initReturned' = [initReturned EXCEPT ![c] = IF entry = "load" THEN "none" ELSE entry]
        /\ loadsStarted' = IF entry = "load" THEN loadsStarted + 1 ELSE loadsStarted
        /\ UNCHANGED loadFailed

\* initialize() called by the effect of the hook or of the page.
InitializeCall ==
    /\ \E c \in InitCallers \ {"enhance"} : StartInitialize(c)
    /\ UNCHANGED << enhPc, enhError, pc, image, option, callLocals, result, error,
                    applyLocals, rounds, thrown, stopReason, applyCount, segVars, pxVars, hookVars >>

\* enhance() resumes at loadImage when the initialize() it awaits has returned.
EnhanceResumed(c) == IF c = "enhance" THEN "loadImage" ELSE enhPc

\* this.modelState.superResolution = await pipeline(...): the load resolves or rejects.
LoadSuperResolution ==
    /\ \E c \in InitCallers, ok \in BOOLEAN :
        /\ initPc[c] = "superResolution"
        /\ IF ok
           THEN /\ modelState' = [modelState EXCEPT !.superResolution = pipelineModel]
                /\ initPc' = [initPc EXCEPT ![c] = "denoise"]
                /\ UNCHANGED << initReturned, enhPc, loadFailed >>
           ELSE /\ modelState' = afterFailedLoad(modelState)
                /\ initPc' = [initPc EXCEPT ![c] = "idle"]
                /\ initReturned' = [initReturned EXCEPT ![c] = "false"]
                /\ enhPc' = EnhanceResumed(c)
                /\ loadFailed' = TRUE
    /\ UNCHANGED << enhError, loadsStarted, pc, image, option, callLocals, result, error,
                    applyLocals, rounds, thrown, stopReason, applyCount, segVars, pxVars, hookVars >>

\* this.modelState.denoise = await pipeline(...), then initialized = true and
\* initializing = false, or the catch.
LoadDenoise ==
    /\ \E c \in InitCallers, ok \in BOOLEAN :
        /\ initPc[c] = "denoise"
        /\ modelState' = IF ok THEN [modelState EXCEPT !.denoise = pipelineModel,
                                                       !.initialized = TRUE,
                                                       !.initializing = FALSE]
                         ELSE afterFailedLoad(modelState)
        /\ initPc' = [initPc EXCEPT ![c] = "idle"]
        /\ initReturned' = [initReturned EXCEPT ![c] = IF ok THEN "true" ELSE "false"]
        /\ enhPc' = EnhanceResumed(c)
        /\ loadFailed' = (loadFailed \/ ~ok)
    /\ UNCHANGED << enhError, loadsStarted, pc, image, option, callLocals, result, error,
                    applyLocals, rounds, thrown, stopReason, applyCount, segVars, pxVars, hookVars >>

\* enhance(): if (!this.modelState.initialized) await this.initialize();
EnhanceCall ==
    /\ enhPc = "idle"
    /\ IF modelState.initialized
       THEN /\ enhPc' = "loadImage"
            /\ UNCHANGED << modelState, initPc, initReturned, loadFailed, loadsStarted >>
       ELSE /\ StartInitialize("enhance")
            /\ enhPc' = IF initializeEntry(modelState) = "load" THEN "awaitInitialize"
                        ELSE "loadImage"
    /\ enhError' = "none"
    /\ UNCHANGED << pc, image, option, callLocals, result, error, applyLocals, rounds,
                    thrown, stopReason, applyCount, segVars, pxVars, hookVars >>

\* await this.loadImage(beforeImageUrl) of enhance(), of a file that decodes.
EnhanceLoadImage ==
    /\ enhPc = "loadImage"
    /\ enhPc' = "applyEnhancement"
    /\ UNCHANGED << enhError, initPc, initReturned, loadFailed, loadsStarted, engineVars,
                    segVars, pxVars, hookVars >>

\* The first applyEnhancement() of the loop: it throws when the engine is not
\* initialized, and enhance() rejects; else the loop runs to its result.
EnhanceApply ==
    /\ enhPc = "applyEnhancement"
    /\ IF modelState.initialized
       THEN enhPc' = "returned" /\ enhError' = "none"
       ELSE enhPc' = "rejected" /\ enhError' = "Enhancement engine not initialized"
    /\ UNCHANGED << initPc, initReturned, loadFailed, loadsStarted, engineVars, segVars,
                    pxVars, hookVars >>

\* The promise of enhance() has settled; the caller may call again.
EnhanceSettled ==
    /\ enhPc \in {"returned", "rejected"}
    /\ enhPc' = "idle"
    /\ enhError' = "none"
    /\ UNCHANGED << initPc, initReturned, loadFailed, loadsStarted, engineVars, segVars,
                    pxVars, hookVars >>

InitNext ==
    \/ InitializeCall
    \/ LoadSuperResolution
    \/ LoadDenoise
    \/ EnhanceCall
    \/ EnhanceLoadImage
    \/ EnhanceApply
    \/ EnhanceSettled

InitSpec == Init /\ [][InitNext]_vars

\* ------------------------------------------------------ the enhance hook

\* The two useEnhancement hooks with a free-tier limit: the one that calls
\* enhancementEngine.enhance and the one with fallback mode that calls enhanceImage.
HookVersions == {"engine", "fallback"}

\* What localStorage may hold at mount: nothing, or a count a mount stored.
StoredCounts == {NoItem} \cup {toString(n) : n \in 0..FREE_TIER_LIMIT}

fallbackFlagsApiOnly(success) == [usingFallback |-> FALSE, apiAvailable |-> success]

\* The flags initializeEngine sets: those of `if (success)`, else those of the
\* else branch, which are also those of the catch block.
fallbackFlags(success) == [usingFallback |-> ~success, apiAvailable |-> success]

\* The guards of handleEnhance, in order: which one returns, or "run".
handleEnhanceGuard(h, version) ==
    IF ~h.selectedImage THEN "noImage"
    ELSE IF h.enhancementCount >= FREE_TIER_LIMIT THEN "limit"
    ELSE IF version = "fallback" /\ ~h.apiAvailable /\ ~h.usingFallback THEN "unavailable"
    ELSE "run"

afterEnhanceStillProcessing(h, outcome, res) ==
    IF outcome = "resolved"
    THEN [h EXCEPT !.enhancementResult = res, !.enhancementCount = @ + 1,
                   !.isProcessing = FALSE, !.processingStage = ""]
    ELSE [h EXCEPT !.processingStage = ""]

\* handleEnhance from its await on: the try block's setters when the
\* enhancement resolved with `res`, the catch block when it rejected, and the
\* finally block.
afterEnhance(h, outcome, res) ==
    LET tried == IF outcome = "resolved"
                 THEN [h EXCEPT !.enhancementResult = res,
                                !.enhancementCount = @ + 1]
                 ELSE h
    IN  [tried EXCEPT !.isProcessing = FALSE, !.processingStage = ""]

\* No setter sequence of the mount effect is half done: handlers run to
\* completion, so no other handler starts between two setters.
Runnable == effectPc \notin {"succeeded", "failed"}

\* The hook mounts: the useState initialisers, the effect that saves the count
\* and initializeEngine up to its await.
Mount(version, stored) ==
    /\ effectPc = "unmounted"
    /\ hookVersion' = version
    /\ hook' = [useState(stored) EXCEPT
                    !.processingStage = "Initializing enhancement engine..."]
    /\ localStorage' = toString(hook'.enhancementCount)
    /\ effectPc' = "awaiting"
    /\ UNCHANGED << handlePc, handleReturned, engineVars, segVars, pxVars, initVars >>

\* initializeEngine after `await enhancementEngine.initialize()`: the setters up
\* to setUsingFallback in the hook with fallback mode, all of them in the other.
InitializeEngineResumed ==
    /\ effectPc = "awaiting"
    /\ \E outcome \in {"true", "false", "throws"} :
        LET success == outcome = "true"
            set == IF outcome = "throws" THEN hook
                   ELSE [hook EXCEPT !.isEngineInitialized = success]
        IN  IF hookVersion = "fallback"
            THEN /\ hook' = [set EXCEPT !.usingFallback = fallbackFlags(success).usingFallback]
                 /\ effectPc' = IF success THEN "succeeded" ELSE "failed"
            ELSE /\ hook' = [set EXCEPT !.processingStage = ""]
                 /\ effectPc' = "done"
    /\ UNCHANGED << hookVersion, localStorage, handlePc, handleReturned,
                    engineVars, segVars, pxVars, initVars >>

\* The rest of initializeEngine in the hook with fallback mode:
\* setApiAvailable and the finally block.
InitializeEngineFinished ==
    /\ effectPc \in {"succeeded", "failed"}
    /\ hook' = [hook EXCEPT
                    !.apiAvailable = fallbackFlags(effectPc = "succeeded").apiAvailable,
                    !.processingStage = ""]
    /\ effectPc' = "done"
    /\ UNCHANGED << hookVersion, localStorage, handlePc, handleReturned,
                    engineVars, segVars, pxVars, initVars >>

\* handleImageSelected(file).
HandleImageSelected ==
    /\ hookVersion # "none"
    /\ Runnable
    /\ hook' = [hook EXCEPT !.selectedImage = TRUE, !.enhancementResult = 0]
    /\ UNCHANGED << hookVersion, localStorage, effectPc, handlePc, handleReturned,
                    engineVars, segVars, pxVars, initVars >>

\* handleEnhance() up to its first await: a guard returns, or the call sets
\* isProcessing and the stage and awaits the enhancement.
HandleEnhance(c) ==
    /\ hookVersion # "none"
    /\ Runnable
    /\ handlePc[c] = "idle"
    /\ LET guard == handleEnhanceGuard(hook, hookVersion)
       IN  IF guard # "run"
           THEN /\ handleReturned' = [handleReturned EXCEPT ![c] = guard]
                /\ UNCHANGED << hook, handlePc >>
           ELSE /\ hook' = [hook EXCEPT
                               !.isProcessing = TRUE,
                               !.processingStage = "Applying enhancement algorithms..."]
                /\ handlePc' = [handlePc EXCEPT ![c] = "awaiting"]
                /\ handleReturned' = [handleReturned EXCEPT ![c] = "none"]
    /\ UNCHANGED << hookVersion, localStorage, effectPc,
                    engineVars, segVars, pxVars, initVars >>

\* handleEnhance() from its await on, the enhancement resolved or rejected, and
\* the effect that saves the count.
HandleEnhanceResumed(c) ==
    /\ handlePc[c] = "awaiting"
    /\ Runnable
    /\ \E outcome \in {"resolved", "rejected"} :
        /\ hook' = afterEnhance(hook, outcome, c)
        /\ handleReturned' = [handleReturned EXCEPT ![c] = outcome]
    /\ localStorage' = toString(hook'.enhancementCount)
    /\ handlePc' = [handlePc EXCEPT ![c] = "idle"]
    /\ UNCHANGED << hookVersion, effectPc, engineVars, segVars, pxVars, initVars >>

HookNext ==
    \/ \E version \in HookVersions, stored \in StoredCounts : Mount(version, stored)
    \/ InitializeEngineResumed
    \/ InitializeEngineFinished
    \/ HandleImageSelected
    \/ \E c \in Calls : HandleEnhance(c)
    \/ \E c \in Calls : HandleEnhanceResumed(c)

HookSpec == Init /\ [][HookNext]_vars

\* ------------------------------------------------------------------ claims

\* The round whose candidate the loop keeps: the first of the highest improvement.
BestIndex(rs) ==
    CHOOSE i \in 1..Len(rs) :
        /\ \A j \in 1..Len(rs) : rs[j].metrics.improvement <= rs[i].metrics.improvement
        /\ \A j \in 1..(i - 1) : rs[j].metrics.improvement < rs[i].metrics.improvement

Range(s) == {s[i] : i \in 1..Len(s)}

\* C1: one enhance() call applies the strategy, and scores a candidate, at most
\* MAX_ITERATIONS = 3 times.
C1_AtMostMaxIterations == applyCount <= 3 /\ Len(rounds) <= 3

\* C1 witness: a call that returned after three full rounds, ended by the bound.
C1_ThreeRoundsRun ==
    pc = "returned" /\ applyCount = 3 /\ Len(rounds) = 3 /\ stopReason = "bound"

\* C2: when every round's candidate is pixel-identical to the original, enhance()
\* returns the original as `after` with the single entry "Original (no significant
\* improvement possible)".
C2_NoOpStrategyReverts ==
    (pc = "returned" /\ \A i \in 1..Len(rounds) : rounds[i].candidate.img = beforeImageUrl.img)
        => /\ result.after = result.before
           /\ result.appliedEnhancements = << RevertedLabel >>

\* C3: when the loop ends with the best improvement below 15, `after` is the
\* original (the value of `before`) and appliedEnhancements is the single revert
\* entry; when it is 15 or more, `after` is the best candidate and not the original.
C3_RevertBelowMinImprovement ==
    pc = "returned" =>
        LET best == rounds[BestIndex(rounds)]
        IN  IF best.metrics.improvement < 150
            THEN /\ result.after = result.before
                 /\ result.appliedEnhancements = << RevertedLabel >>
            ELSE /\ result.after = best.candidate
                 /\ result.after # result.before

\* C3 witness: a call of two rounds or more that returned the original.
C3_RevertedAfterRounds ==
    /\ pc = "returned"
    /\ Len(rounds) >= 2
    /\ result.metrics.improvement < 150
    /\ result.after = result.before

\* C4: when enhance() does not revert, appliedEnhancements lists the stage names
\* the strategy applied to produce the returned image; for hdr it holds
\* "HDR Enhancement".
C4_AppliedEnhancementsListed ==
    (pc = "returned" /\ result.after # result.before) =>
        LET best == rounds[BestIndex(rounds)]
        IN  /\ result.appliedEnhancements = best.stages
            /\ (option = "hdr" /\ best.stages # <<>>)
                   => "HDR Enhancement" \in Range(result.appliedEnhancements)

\* C5: enhance() rejects only for an invalid image; with the models absent or
\* failing to load, a valid image still gets a result.
C5_RejectsOnlyInvalidInput == pc = "rejected" => ~image.valid

C7_StopSuccess ==
    [][(/\ pc = "score"
        /\ pc' # "score"
        /\ (bestMetrics = undefined \/ metrics'.improvement > bestMetrics.improvement)) =>
          /\ bestMetrics' = metrics'
          /\ bestResult' = processedImageData
          /\ metrics'.improvement > 225 => (pc' = "finish" /\ stopReason' = "success")
          /\ metrics'.improvement <= 225 =>
                /\ stopReason' # "success"
                /\ (/\ Len(rounds') < 3
                    /\ ~(metrics'.psnr > 250 /\ metrics'.ssim > 800 /\ metrics'.improvement > 150))
                       => pc' = "apply"]_vars

\* C7 witness: a first round that set a best of at most 22.5 and went on, then a
\* second round that set a best above 22.5 and stopped the loop.
C7_SecondRoundStops ==
    /\ pc = "finish"
    /\ stopReason = "success"
    /\ Len(rounds) = 2
    /\ rounds[1].metrics.improvement <= 225
    /\ rounds[2].metrics.improvement > 225
    /\ bestMetrics = rounds[2].metrics

\* C8: a round that scores worse than the previous best stops the loop at once
\* (Stop-Diminishing) and leaves the best result and the best metrics as they were.
C8_StopDiminishing ==
    [][(/\ pc = "score"
        /\ pc' # "score"
        /\ bestMetrics # undefined
        /\ metrics'.improvement < bestMetrics.improvement) =>
          /\ pc' = "finish"
          /\ stopReason' = "diminishing"
          /\ bestResult' = bestResult
          /\ bestMetrics' = bestMetrics]_vars

\* C8 witness: a second round worse than the first, the result holding the first.
C8_WorseSecondRound ==
    /\ pc = "returned"
    /\ stopReason = "diminishing"
    /\ Len(rounds) = 2
    /\ rounds[2].metrics.improvement < rounds[1].metrics.improvement
    /\ result.metrics = rounds[1].metrics
    /\ result.after = rounds[1].candidate

\* C9: after a round at whose end best has psnr > 25, ssim > 0.8 and
\* improvement > 15, no further round runs.
C9_StopThreshold ==
    [][(/\ pc = "score"
        /\ pc' # "score"
        /\ bestMetrics'.psnr > 250
        /\ bestMetrics'.ssim > 800
        /\ bestMetrics'.improvement > 150) => pc' = "finish"]_vars

\* C9 witness: the loop over after one round whose changed candidate met the
\* three thresholds.
C9_ThresholdsMetInRoundOne ==
    /\ pc = "finish"
    /\ Len(rounds) = 1
    /\ rounds[1].candidate.img # beforeImageUrl.img
    /\ bestMetrics.psnr > 250
    /\ bestMetrics.ssim > 800
    /\ bestMetrics.improvement > 150

\* The pixels (px, py) of a width x height image the k-th region covers.
Covers(region, px, py) ==
    /\ region.x <= px /\ px < region.x + region.width
    /\ region.y <= py /\ py < region.y + region.height

\* The regions are gridSize x gridSize rectangles inside the image that hold
\* every pixel exactly once.
TilesImage(regions, width, height) ==
    /\ Len(regions) = gridSize * gridSize
    /\ \A k \in 1..Len(regions) :
          /\ regions[k].x >= 0 /\ regions[k].x + regions[k].width <= width
          /\ regions[k].y >= 0 /\ regions[k].y + regions[k].height <= height
    /\ \A px \in 0..(width - 1), py \in 0..(height - 1) :
          Cardinality({k \in 1..Len(regions) : Covers(regions[k], px, py)}) = 1

\* C10: for every width >= 1 and height >= 1 segmentImage returns 16 regions
\* that cover every pixel of the image exactly once, none outside the image.
C10_GridTilesEveryImage ==
    segPc = "done" =>
        /\ ~segResult.threw
        /\ TilesImage(segResult.regions, segInput.width, segInput.height)

\* What segmentImage does guarantee: the tiling for images of at least
\* gridSize x gridSize pixels, where every getImageData call has a non-empty
\* rectangle.
SegTilesFromGridSize ==
    (segPc = "done" /\ segInput.width >= gridSize /\ segInput.height >= gridSize) =>
        /\ ~segResult.threw
        /\ TilesImage(segResult.regions, segInput.width, segInput.height)

\* C11: in auto mode the global pipeline is taken whenever at least half of the
\* regions are flagged needsEnhancement, exactly 8 of 16 included, and the
\* selective regional path otherwise.
C11_GlobalFromHalf ==
    [][(pc = "segment" /\ pc' = "stages") =>
          (pending' = (IF needsEnhancementCount' * 2 >= gridSize * gridSize
                       THEN GlobalPipeline ELSE SelectivePipeline))]_vars

\* The two buffers have the same length and the same R, G and B bytes.
SameRgb(d1, d2) ==
    Len(d1) = Len(d2) /\ \A k \in 1..Len(d1) : k % 4 # 0 => d1[k] = d2[k]

\* C12: calculatePSNR returns exactly 100 (1000 tenths) for every non-empty
\* pair of buffers with identical RGB channels, whatever their alpha channels;
\* so psnr(x, x) = 100 for every buffer x.
C12_IdenticalRgbGivesCap ==
    (pxPc = "done" /\ pxCall.fn = "calculatePSNR"
        /\ SameRgb(pxImageData.data, pxCall.img2Data)) => pxResult.psnr = 1000

\* C12 witness: calculatePSNR called on two buffers of several pixels that
\* differ in alpha only.
C12_AlphaOnlyDiffers ==
    /\ pxPc = "done"
    /\ pxCall.fn = "calculatePSNR"
    /\ Len(pxImageData.data) >= 8
    /\ SameRgb(pxImageData.data, pxCall.img2Data)
    /\ pxCall.img2Data # pxImageData.data
    /\ pxResult.psnr = 1000

\* C13: the RGB -> HSL -> RGB conversion of the colour filters is a round trip:
\* with h, s and l unchanged (applyColorEnhancement with strength 0) every
\* channel comes back within 1 of its input, and an achromatic pixel
\* (r = g = b) has h = s = 0 and comes back unchanged.
C13_HslRoundTrip ==
    (pxPc = "done" /\ pxCall.fn = "applyColorEnhancement" /\ pxCall.strength = 0) =>
        /\ \A c \in 1..3 : Abs(pxResult.rgb[c] - pxImageData.data[c]) <= 1
        /\ (pxImageData.data[1] = pxImageData.data[2]
                /\ pxImageData.data[2] = pxImageData.data[3]) =>
              /\ pxResult.h = Num(0, 1)
              /\ pxResult.s = Num(0, 1)
              /\ pxResult.rgb = SubSeq(pxImageData.data, 1, 3)

\* C13 witness: a pixel of three different channels, blue above green (so that
\* the hue of the blue channel wraps below 0), converted and back at strength 0.
C13_ChromaticPixelConverted ==
    /\ pxPc = "done"
    /\ pxCall.fn = "applyColorEnhancement"
    /\ pxCall.strength = 0
    /\ pxImageData.data[1] > pxImageData.data[3]
    /\ pxImageData.data[3] > pxImageData.data[2]
    /\ pxImageData.data[2] > 0
    /\ pxResult.rgb = SubSeq(pxImageData.data, 1, 3)

\* The calls that return the ImageData of a filter; enhanceImage with a params
\* object whose fields are numbers of the documented ranges.
FilterCall ==
    /\ pxPc = "done"
    /\ pxCall.fn \in {"enhanceImage", "enhanceImageScaled", "applyHDREffect"}
    /\ (pxCall.fn = "enhanceImage" => pxCall.params.defined)

\* C14: whatever the strategy, and whatever the brightness, contrast and
\* detailLevel of the documented ranges in the custom parameter stage, every
\* byte of the output is in 0..255 and no stored value was NaN.
C14_BytesInRangeNoNaN ==
    FilterCall =>
        /\ ~pxResult.enhancedData.nan
        /\ \A k \in 1..Len(pxResult.enhancedData.data) :
                pxResult.enhancedData.data[k] \in 0..255
        /\ (pxCall.fn = "enhanceImage" =>
                /\ ~pxResult.strategy.nan
                /\ \A k \in 1..Len(pxResult.strategy.data) :
                        pxResult.strategy.data[k] \in 0..255)

\* A black pixel went through the color strategy and the custom stage at
\* brightness 100, contrast 100 and detailLevel 100, and a byte was clamped to 255.
C14_ExtremeParamsOnBlack ==
    /\ pxPc = "done"
    /\ pxCall.fn = "enhanceImage"
    /\ pxCall.option = "color"
    /\ pxCall.params.defined
    /\ pxCall.params.brightness = 100
    /\ pxCall.params.contrast = 100
    /\ pxCall.params.detailLevel = 100
    /\ pxImageData.data[1] = 0 /\ pxImageData.data[2] = 0 /\ pxImageData.data[3] = 0
    /\ pxResult.enhancedData.data[1] = 255

\* C15: the strategy of every option writes each pixel's alpha byte as it
\* read it, a transparent pixel's 0 included, and stores no value that came
\* of a division by zero.
C15_StrategyKeepsAlpha ==
    (pxPc = "done" /\ pxCall.fn = "enhanceImage") =>
        /\ Len(pxResult.strategy.data) = Len(pxImageData.data)
        /\ \A k \in 1..Len(pxImageData.data) :
                k % 4 = 0 => pxResult.strategy.data[k] = pxImageData.data[k]
        /\ ~pxResult.strategy.nan

\* The color strategy ran on a 1x1 image whose pixel is black and fully
\* transparent (max = 0), and its alpha came out 0.
C15_TransparentBlackPixelInColor ==
    /\ pxPc = "done"
    /\ pxCall.fn = "enhanceImage"
    /\ pxCall.option = "color"
    /\ pxImageData.width = 1 /\ pxImageData.height = 1
    /\ pxImageData.data = << 0, 0, 0, 0 >>
    /\ pxResult.strategy.data[4] = 0

\* The positions within radius of p that lie inside 0..size-1.
InsideWindow(p, size, radius) == {q \in 0..(size - 1) : Abs(q - p) <= radius}

\* The byte stored for the mean of the elements of src at the pixels at,
\* channel c: their sum over their number.
MeanByte(src, at, c) ==
    ToUint8Clamp(Num(SeqSum([j \in 1..Len(at) |-> src[at[j] * 4 + c + 1]]), Len(at)))

\* The pixels of row y at the columns of window, and of column x at its rows.
RowPixels(y, width, window) ==
    [j \in 1..Cardinality(window) |->
        y * width + CHOOSE q \in window : Cardinality({o \in window : o < q}) = j - 1]

ColumnPixels(x, width, window) ==
    [j \in 1..Cardinality(window) |->
        x + width * CHOOSE q \in window : Cardinality({o \in window : o < q}) = j - 1]

\* C16: in each pass of boxBlur every RGB byte is the mean of the samples
\* inside the image only, over their number, which is at least 1 and less than
\* the kernel size where the kernel crosses a border; every alpha byte is the
\* input's.
C16_BlurAveragesInBoundsSamples ==
    (pxPc = "done" /\ pxCall.fn = "boxBlur") =>
        \A k \in 1..Len(pxImageData.data) :
            LET x    == ((k - 1) \div 4) % pxImageData.width
                y    == ((k - 1) \div 4) \div pxImageData.width
                c    == (k - 1) % 4
                cols == InsideWindow(x, pxImageData.width, pxCall.radius)
                rows == InsideWindow(y, pxImageData.height, pxCall.radius)
            IN  IF c = 3 THEN pxResult.data[k] = pxImageData.data[k]
                ELSE /\ Cardinality(cols) >= 1 /\ Cardinality(rows) >= 1
                     /\ (x < pxCall.radius \/ x + pxCall.radius >= pxImageData.width)
                            => Cardinality(cols) < 2 * pxCall.radius + 1
                     /\ (y < pxCall.radius \/ y + pxCall.radius >= pxImageData.height)
                            => Cardinality(rows) < 2 * pxCall.radius + 1
                     /\ pxResult.temp[k]
                            = MeanByte(pxImageData.data, RowPixels(y, pxImageData.width, cols), c)
                     /\ pxResult.data[k]
                            = MeanByte(pxResult.temp, ColumnPixels(x, pxImageData.width, rows), c)

\* boxBlur of radius 1 ran on a 3x3 image of differing pixels, whose centre has
\* the full kernel and whose other pixels do not, and changed it.
C16_BlurredWithBorders ==
    /\ pxPc = "done"
    /\ pxCall.fn = "boxBlur"
    /\ pxCall.radius = 1
    /\ pxImageData.width = 3 /\ pxImageData.height = 3
    /\ pxResult.temp # pxImageData.data
    /\ pxResult.data # pxResult.temp

\* original - blurred at element k of the buffer sharpened, with blurred =
\* boxBlur(original, 1).
SharpenDiff(k) == pxImageData.data[k] - boxBlur(pxImageData, 1).data[k]

\* C17: unsharpMask keeps an RGB byte whose difference from the blurred byte
\* is at most 10 and stores original + difference * sharpness / 100, clamped to
\* 0..255, for the others; it keeps every alpha byte and the caller's buffer.
C17_UnsharpMaskThreshold ==
    (pxPc = "done" /\ pxCall.fn = "applySharpening") =>
        /\ pxResult.imgData = pxImageData
        /\ \A k \in 1..Len(pxImageData.data) :
            IF k % 4 = 0 \/ Abs(SharpenDiff(k)) <= 10
            THEN pxResult.data[k] = pxImageData.data[k]
            ELSE pxResult.data[k]
                    = ToUint8Clamp(MathMin(255, MathMax(0,
                        Num(100 * pxImageData.data[k] + SharpenDiff(k) * pxCall.sharpness,
                            100))))

\* A buffer was sharpened at full strength in which one RGB byte differs from
\* its blurred byte by exactly 10 and was kept, and another differs by more
\* and was changed.
C17_AtAndAboveThreshold ==
    /\ pxPc = "done"
    /\ pxCall.fn = "applySharpening"
    /\ pxCall.sharpness = 100
    /\ \E k \in 1..Len(pxImageData.data) :
            k % 4 # 0 /\ Abs(SharpenDiff(k)) = 10 /\ pxResult.data[k] = pxImageData.data[k]
    /\ \E k \in 1..Len(pxImageData.data) :
            k % 4 # 0 /\ Abs(SharpenDiff(k)) > 10 /\ pxResult.data[k] # pxImageData.data[k]

\* C18: applyColorPop with colorIntensity = 0 boosts no saturation: the
\* saturation it converts back to RGB is the saturation of the pixel it
\* converted to HSL (the pixel as applyColorEnhancement left it), whatever the hue.
C18_ZeroIntensityKeepsSaturation ==
    (pxPc = "done" /\ pxCall.fn = "applyColorPop" /\ pxCall.colorIntensity = 0) =>
        LET first == colorEnhancementPixel(pxImageData.data[1], pxImageData.data[2],
                                           pxImageData.data[3], Num(0, 1)).rgb
        IN  pxResult.s = rgbToHsl(first[1], first[2], first[3]).s

\* The buffer out is valid, of width x height pixels.
ValidBuffer(out, width, height) ==
    /\ ~out.threw
    /\ out.width = width /\ out.height = height
    /\ Len(out.data) = out.width * out.height * 4

\* C19: every strategy returns, without throwing, a buffer whose length is its
\* width x height x 4: of the input's dimensions in the unscaled pipeline, of
\* the input's width and height times the quality factor in the scaled one,
\* so never of fewer pixels than the input.
C19_StrategyReturnsValidBuffer ==
    /\ (pxPc = "done" /\ pxCall.fn = "enhanceImage") =>
            /\ ValidBuffer(pxResult.strategy, pxImageData.width, pxImageData.height)
            /\ ValidBuffer(pxResult.enhancedData, pxImageData.width, pxImageData.height)
    /\ (pxPc = "done" /\ pxCall.fn = "enhanceImageScaled") =>
            /\ ValidBuffer(pxResult.enhancedData, pxImageData.width * pxCall.qualityFactor,
                           pxImageData.height * pxCall.qualityFactor)
            /\ Len(pxResult.enhancedData.data) >= Len(pxImageData.data)

\* The detail strategy of the scaled pipeline ran at quality factor 2 on an
\* image of 2 x 3 pixels and returned one of 4 x 6.
C19_ScaledDetailOnOblong ==
    /\ pxPc = "done"
    /\ pxCall.fn = "enhanceImageScaled"
    /\ pxCall.option = "detail"
    /\ pxCall.qualityFactor = 2
    /\ pxImageData.width = 2 /\ pxImageData.height = 3
    /\ Len(pxResult.enhancedData.data) = 96

\* The indices of a buffer of the loaded image's length.
Indices == 0..(Len(pxImageData.data) - 1)

\* The pixel of element k has all eight neighbours inside the loaded image.
AllNeighboursInside(k) ==
    \A dx \in {-1, 0, 1}, dy \in {-1, 0, 1} :
        /\ InImage(PixelX(k, pxImageData.width) + dx, pxImageData.width)
        /\ InImage(PixelY(k, pxImageData.width) + dy, pxImageData.height)

\* C20: whatever the size of the buffer, 1 or 2 wide or high included,
\* applyDetailBoost reads no index outside the array and writes each element
\* once, in the 3x3 kernel loop for exactly the pixels with all eight
\* neighbours inside the image and as data * 1.2 for the others, and
\* analyzeRegionQuality reads no index outside the array, reading the right
\* and the lower neighbour only of pixels not in the last column or row.
C20_NeighbourFiltersStayInside ==
    /\ (pxPc = "done" /\ pxCall.fn = "enhanceImage" /\ pxCall.option = "detail") =>
            /\ detailReads(pxImageData.width, pxImageData.height) \subseteq Indices
            /\ ~pxResult.strategy.nan
            /\ \A k \in 1..Len(pxImageData.data) :
                /\ detailWrites(pxImageData.width, pxImageData.height)[k] = 1
                /\ KernelLoop(PixelX(k, pxImageData.width), PixelY(k, pxImageData.width),
                              pxImageData.width, pxImageData.height)
                        <=> AllNeighboursInside(k)
                /\ (~AllNeighboursInside(k) /\ k % 4 # 0) =>
                        pxResult.strategy.data[k]
                            = ToUint8Clamp(MathMin(255, Num(pxImageData.data[k] * 12, 10)))
    /\ (pxPc = "done" /\ pxCall.fn = "analyzeRegionQuality") =>
            /\ pxResult.reads \subseteq Indices
            /\ \A i \in Indices :
                    (i % 4 = 0 /\ NotAtEdge(i, pxImageData.width, Len(pxImageData.data)))
                        <=> /\ i % 4 = 0
                            /\ PixelX(i + 1, pxImageData.width) < pxImageData.width - 1
                            /\ PixelY(i + 1, pxImageData.width) < pxImageData.height - 1

\* The detail strategy ran on an image 2 pixels wide and 3 high, in which no
\* pixel has all its neighbours: all of it went through the border loop.
C20_DetailOnNarrowImage ==
    /\ pxPc = "done"
    /\ pxCall.fn = "enhanceImage"
    /\ pxCall.option = "detail"
    /\ pxImageData.width = 2 /\ pxImageData.height = 3
    /\ KernelPixels(pxImageData.width, pxImageData.height) = {}
    /\ \E k \in 1..Len(pxImageData.data) : pxResult.strategy.data[k] # pxImageData.data[k]

\* C21: the first round applies the strategy to the original image, every
\* later round to the candidate of the round before it, and the metrics of
\* every round are those of its candidate against the original.
C21_RoundsChainedScoredAgainstOriginal ==
    \A i \in 1..Len(rounds) :
        /\ rounds[i].input = (IF i = 1 THEN toDataURL(image.img) ELSE rounds[i - 1].candidate)
        /\ rounds[i].metrics = computeQualityMetrics(createObjectURL(image), rounds[i].candidate)

\* A second round was scored whose input, the first round's candidate, is not
\* the original image, and whose candidate differs from that input.
C21_SecondRoundOnChangedImage ==
    /\ Len(rounds) >= 2
    /\ rounds[2].input = rounds[1].candidate
    /\ rounds[2].input # toDataURL(image.img)
    /\ rounds[2].candidate # rounds[2].input

\* The psnr (tenths) and ssim (thousandths) around the two thresholds and at
\* their upper ends.
NearMinPSNR == (QUALITY_THRESHOLDS.minPSNR - 5)..(QUALITY_THRESHOLDS.minPSNR + 10) \cup {1000}

NearMinSSIM == (QUALITY_THRESHOLDS.minSSIM - 5)..(QUALITY_THRESHOLDS.minSSIM + 10) \cup {1000}

\* C22: the loop never ends by the threshold test: metrics that pass it have
\* an improvement above minImprovement * 1.5, so the round that scored them
\* has taken the break of the early stop, or was no new best.
C22_ThresholdExitNeverTaken ==
    /\ stopReason # "threshold"
    /\ \A i \in 1..Len(rounds) :
            MeetsThresholds(rounds[i].metrics) => IsExcellent(rounds[i].metrics)
    /\ \A psnr \in NearMinPSNR, ssim \in NearMinSSIM :
            (psnr > QUALITY_THRESHOLDS.minPSNR /\ ssim > QUALITY_THRESHOLDS.minSSIM)
                => improvementOf(psnr, ssim) > 400

\* The threshold test was reached and failed: the first round set a best with
\* ssim above 0.8 and an improvement between 15 and 22.5, its psnr is not above
\* 25, and a second round ran.
C22_ThresholdTestReached ==
    /\ Len(rounds) >= 2
    /\ rounds[1].metrics.improvement > 150
    /\ ~IsExcellent(rounds[1].metrics)
    /\ rounds[1].metrics.ssim > 800
    /\ rounds[1].metrics.psnr <= 250

\* C23: the metrics of every result enhance() resolves with are the score of
\* its `after` image against its `before` image, in the reverted outcome too.
C23_MetricsDescribeAfter ==
    pc = "returned" => result.metrics = computeQualityMetrics(result.before, result.after)

\* C24: an enhance() call started while initialize() is loading the models
\* never rejects with 'Enhancement engine not initialized' unless a model
\* load has failed.
C24_EnhanceWaitsForInitialize ==
    (enhPc = "rejected" /\ enhError = "Enhancement engine not initialized") => loadFailed

\* The initialize() calls that are at one of their two awaited loads.
LoadsInFlight == {c \in InitCallers : initPc[c] # "idle"}

\* C25: initialized and initializing are never both true; initializing is true
\* exactly while one load is in flight, so it is false again after a failed
\* load; once initialized is true the model state changes no more, no load
\* starts, and every initialize() call returns true.
C25_InitializeFlagsConsistent ==
    /\ [](/\ ~(modelState.initialized /\ modelState.initializing)
          /\ modelState.initializing <=> LoadsInFlight # {}
          /\ Cardinality(LoadsInFlight) <= 1)
    /\ [][modelState.initialized =>
             /\ modelState' = modelState
             /\ loadsStarted' = loadsStarted
             /\ \A c \in InitCallers :
                    initReturned'[c] # initReturned[c] => initReturned'[c] = "true"]_vars

\* A load failed, a later initialize() call loaded the models again and
\* succeeded, and a call after that returned true while the engine was
\* initialized.
C25_RetriedAfterFailedLoad ==
    /\ loadFailed
    /\ loadsStarted >= 2
    /\ modelState.initialized
    /\ initReturned["mount"] = "true"
    /\ initReturned["page"] = "true"

\* C26: enhanceImage with params omitted runs no custom stage: the pixels it
\* returns are those of the strategy, and appliedEnhancements holds the three
\* names of the mode only.
C26_OmittedParamsApplyNoStage ==
    (pxPc = "done" /\ pxCall.fn = "enhanceImage" /\ ~pxCall.params.defined) =>
        /\ pxResult.enhancedData.data = pxResult.strategy.data
        /\ pxResult.appliedEnhancements = modeNames(pxCall.option)

\* C27: for every image size, detectBlurLevel and calculateImprovementMetrics
\* read for each sampled pixel only indices inside the pixel array, so the
\* blur value and the improvement they return are never NaN.
C27_SamplesStayInside ==
    (pxPc = "done" /\ pxCall.fn \in {"detectBlurLevel", "calculateImprovementMetrics"}) =>
        /\ pxResult.reads \subseteq 0..(Len(pxImageData.data) - 1)
        /\ ~pxResult.nan

\* C28: starting from a stored count of at most 3, enhancementCount never
\* exceeds FREE_TIER_LIMIT, whatever the sequence and interleaving of
\* handleEnhance calls, overlapping ones included.
C28_CountWithinFreeTier == hook.enhancementCount <= FREE_TIER_LIMIT

\* A step in which the handleEnhance call c ends after its await.
HandleEnhanceEnds(c) == handlePc[c] = "awaiting" /\ handlePc'[c] = "idle"

\* A step in which a guard of the handleEnhance call c returns early.
GuardReturns(c) ==
    /\ handlePc[c] = "idle" /\ handlePc'[c] = "idle"
    /\ handleReturned'[c] # handleReturned[c]
    /\ handleReturned'[c] \in {"noImage", "limit", "unavailable"}

C30_ApiAvailableOrFallback ==
    hookVersion = "fallback" =>
        /\ hook.apiAvailable \/ hook.usingFallback
        /\ \A c \in Calls : handleReturned[c] # "unavailable"

C30_FallbackAfterFailedInitialize ==
    /\ hookVersion = "fallback"
    /\ effectPc = "done"
    /\ hook.usingFallback /\ ~hook.apiAvailable
    /\ \E c \in Calls : handleReturned[c] = "resolved"

====
